---- MODULE Spec2Model ----
(***************************************************************************)
(* State-machine model of the Model-Completions-Protocol core of           *)
(* ai-cad-sdk: MCPService (request queue, drain loop, executor with retry  *)
(* and timeout), AICache (exact cache), BasicSemanticCacheProvider         *)
(* (semantic cache) and MCPConfigManager (strategy presets).               *)
(*                                                                         *)
(* Time is a discrete clock `now` (one unit = one clock reading of         *)
(* Date.now()); durations of the options are scaled to a few units.        *)
(* JavaScript objects that are shared by reference (AIResponse objects     *)
(* held by a cache and by a caller) live in `heap`; a reference is an      *)
(* index into it.                                                          *)
(***************************************************************************)
EXTENDS Integers, Sequences, FiniteSets, TLC

(***************************************************************************)
(* Bounds of the model.                                                    *)
(***************************************************************************)
\* requests enqueued
MaxReq == 3
\* readings of the clock
MaxTime == 4
\* requests enqueued where the caches are studied
MaxCacheReq == 2
\* stores on the caches used directly
MaxCacheOps == 2
\* calls of updateStrategyConfig
MaxUpdates == 2
\* requests submitted where progress is studied
MaxLiveReq == 2
\* calls of set where the eviction of the exact cache is studied
MaxLruOps == 3
\* requests submitted through UnifiedAIService
MaxUnifiedReq == 1
\* requests enqueued where the routing step of enqueue is studied
MaxRoutedReq == 2
\* calls of UnifiedAIService.processRequest where its fallback is studied
MaxFallbackCalls == 2
\* requests enqueued where the semantic cache is switched off and on
MaxSwitchReq == 2

(***************************************************************************)
(* Options of the service and of the caches, scaled to model time.         *)
(***************************************************************************)
maxRetries == 2
retryDelay == 1
timeoutMs == 2
defaultTTL == 3
cacheDefaultTtl == 2
cacheMaxSize == 2

priorityLevels == [high |-> 100, normal |-> 50, low |-> 10]

Priorities == {"high", "normal", "low"}

Null == "<null>"

Infinity == MaxTime + 1000

(***************************************************************************)
(* Generic helpers on sequences used as insertion-ordered Maps.            *)
(***************************************************************************)
RemoveAt(s, i) == SubSeq(s, 1, i - 1) \o SubSeq(s, i + 1, Len(s))

IndexOfKey(m, k) ==
    IF \E i \in 1..Len(m) : m[i].key = k
    THEN CHOOSE i \in 1..Len(m) : m[i].key = k
    ELSE 0

\* Map.prototype.set: an existing key keeps its position, a new key is appended
MapSet(m, k, item) ==
    LET i == IndexOfKey(m, k) IN
    IF i = 0 THEN Append(m, item) ELSE [m EXCEPT ![i] = item]

(***************************************************************************)
(* AICache: the exact cache.  A cache is the Map in insertion order, each  *)
(* item [key, data, timestamp, expiresAt].  data is a heap reference (or   *)
(* any non-zero value); NoRef stands for null.                             *)
(***************************************************************************)
NoRef == 0

\* an expiry test that never fires
IsExpiredNever(item, t) == FALSE

\* `now > item.expiresAt`: the test used by get, has, clearExpired and getStats
IsExpired(item, t) == t > item.expiresAt

\* AICache.get: returns the data unless the key is absent or expired; an
\* expired item is deleted by the lookup
AICacheGet(c, key, t) ==
    LET i == IndexOfKey(c, key) IN
    IF i = 0 THEN [cache |-> c, value |-> NoRef]
    ELSE IF IsExpired(c[i], t) THEN [cache |-> RemoveAt(c, i), value |-> NoRef]
    ELSE [cache |-> c, value |-> c[i].data]

\* the forEach of removeOldestItem: the first item, in Map order, with the
\* smallest timestamp strictly below the starting value Date.now()
RECURSIVE ScanOldest(_, _, _, _)
ScanOldest(c, i, oldestTimestamp, oldestIdx) ==
    IF i > Len(c) THEN oldestIdx
    ELSE IF c[i].timestamp < oldestTimestamp
         THEN ScanOldest(c, i + 1, c[i].timestamp, i)
         ELSE ScanOldest(c, i + 1, oldestTimestamp, oldestIdx)

\* `if (oldestKey) this.cache.delete(oldestKey)`: null and the empty key
\* are both falsy
removeOldestItem(c, t) ==
    LET i == ScanOldest(c, 1, t, 0) IN
    IF i = 0 \/ c[i].key = "" THEN c ELSE RemoveAt(c, i)

\* AICache.has: as get, without the data
AICacheHas(c, key, t) ==
    LET i == IndexOfKey(c, key) IN
    IF i = 0 THEN [cache |-> c, value |-> FALSE]
    ELSE IF IsExpired(c[i], t) THEN [cache |-> RemoveAt(c, i), value |-> FALSE]
    ELSE [cache |-> c, value |-> TRUE]

\* AICache.clearExpired
AICacheClearExpired(c, t) == SelectSeq(c, LAMBDA item : ~IsExpired(item, t))

\* the while loop of setMaxSize at one reading of the clock: it removes the
\* oldest item until the cache fits, or until removeOldestItem finds no item
\* older than the clock
RECURSIVE TrimToSize(_, _, _)
TrimToSize(c, size, t) ==
    IF Len(c) <= size THEN c
    ELSE LET c1 == removeOldestItem(c, t) IN
         IF c1 = c THEN c ELSE TrimToSize(c1, size, t)

\* `customTtl || this.options.ttl`: 0 (and undefined) select the default
EffectiveTtl(customTtl, optTtl) == IF customTtl # 0 THEN customTtl ELSE optTtl

\* AICache.set (persistence does not change the in-memory Map)
AICacheSet(c, key, data, customTtl, t, maxSize, optTtl) ==
    LET ttl == EffectiveTtl(customTtl, optTtl)
        c1 == IF Len(c) >= maxSize THEN removeOldestItem(c, t) ELSE c
        cacheItem == [key |-> key, data |-> data, timestamp |-> t,
                      expiresAt |-> t + ttl]
    IN MapSet(c1, key, cacheItem)

(***************************************************************************)
(* BasicSemanticCacheProvider: the semantic cache.                         *)
(*                                                                         *)
(* A similarity is the exact rational value of a cosine, kept as its sign  *)
(* and its square n/d, so that comparisons need no square root.            *)
(***************************************************************************)
Sign(x) == IF x > 0 THEN 1 ELSE IF x < 0 THEN -1 ELSE 0

SimOf(sgn, n, d) == [sgn |-> sgn, n |-> n, d |-> d]

SimZero == SimOf(0, 0, 1)

SimOne == SimOf(1, 1, 1)

SimMinusOne == SimOf(-1, 1, 1)

\* a threshold given in hundredths (0.8 is 80)
SimPct(m) == SimOf(Sign(m), m * m, 10000)

SimGT(a, b) ==
    IF a.sgn # b.sgn THEN a.sgn > b.sgn
    ELSE IF a.sgn = 1 THEN a.n * b.d > b.n * a.d
    ELSE IF a.sgn = -1 THEN a.n * b.d < b.n * a.d
    ELSE FALSE

SimGE(a, b) == ~SimGT(b, a)

\* getEmbedding: a fixed function from the text to a vector.  The source
\* hashes the words of the text into 128 components and divides by the
\* magnitude; here the texts of the model have small integer vectors, kept
\* unnormalised (cosineSimilarity divides by both magnitudes again).
getEmbedding(text) ==
    CASE text = "make a cube"   -> <<4, 3>>
      [] text = "make a box"    -> <<3, 4>>
      [] text = "cube"          -> <<1, 0>>
      [] text = "drill a hole"  -> <<-3, 4>>
      [] OTHER                  -> <<0, 1>>

RECURSIVE DotFrom(_, _, _)
DotFrom(a, b, i) == IF i > Len(a) THEN 0 ELSE a[i] * b[i] + DotFrom(a, b, i + 1)

cosineSimilarity(vecA, vecB) ==
    LET dotProduct == DotFrom(vecA, vecB, 1)
        magA2 == DotFrom(vecA, vecA, 1)
        magB2 == DotFrom(vecB, vecB, 1)
    IN IF magA2 = 0 \/ magB2 = 0 THEN SimZero
       ELSE IF dotProduct = 0 THEN SimZero
       ELSE SimOf(Sign(dotProduct), dotProduct * dotProduct, magA2 * magB2)

NoMatch == [response |-> NoRef, similarity |-> SimMinusOne, cacheKey |-> <<>>]

\* `options.model && entry.model && entry.model !== options.model`
ModelMismatch(optModel, entryModel) ==
    optModel # Null /\ entryModel # Null /\ entryModel # optModel

\* a match test without the floor
BetterMatchNoFloor(similarity, highestSimilarity, minSimilarity) ==
    SimGT(similarity, highestSimilarity)

\* a match test that takes any entry at or above the floor
BetterMatchAnyAbove(similarity, highestSimilarity, minSimilarity) ==
    SimGE(similarity, SimPct(minSimilarity))

\* the test that lets an entry replace the best match so far
BetterMatch(similarity, highestSimilarity, minSimilarity) ==
    SimGT(similarity, highestSimilarity) /\ SimGE(similarity, SimPct(minSimilarity))

\* the loop of findSimilar over the Map: expired entries are deleted,
\* entries on another model skipped, the best match so far replaced
RECURSIVE ScanSimilar(_, _, _, _, _, _, _, _)
ScanSimilar(c, i, queryEmbedding, optModel, minSimilarity, t, kept, bestMatch) ==
    IF i > Len(c) THEN [cache |-> kept, match |-> bestMatch]
    ELSE LET entry == c[i] IN
         IF entry.expiresAt < t
         THEN ScanSimilar(c, i + 1, queryEmbedding, optModel, minSimilarity, t,
                          kept, bestMatch)
         ELSE IF ModelMismatch(optModel, entry.model)
         THEN ScanSimilar(c, i + 1, queryEmbedding, optModel, minSimilarity, t,
                          Append(kept, entry), bestMatch)
         ELSE LET similarity == cosineSimilarity(queryEmbedding, entry.embedding) IN
              IF BetterMatch(similarity, bestMatch.similarity, minSimilarity)
              THEN ScanSimilar(c, i + 1, queryEmbedding, optModel, minSimilarity, t,
                               Append(kept, entry),
                               [response |-> entry.response,
                                similarity |-> similarity,
                                cacheKey |-> entry.key])
              ELSE ScanSimilar(c, i + 1, queryEmbedding, optModel, minSimilarity, t,
                               Append(kept, entry), bestMatch)

\* findSimilar(query, {model, systemPrompt, minSimilarity}); systemPrompt is
\* accepted and never read
findSimilar(c, query, optModel, minSimilarity, t) ==
    ScanSimilar(c, 1, getEmbedding(query), optModel, minSimilarity, t, <<>>, NoMatch)

\* store(query, response, {model, systemPrompt, ttl}); the key is
\* `semantic:${Date.now()}:${simpleHash(query, 0)}`
SemanticStore(c, query, response, optModel, systemPrompt, ttl, t) ==
    LET cacheKey == <<t, query>> IN
    MapSet(c, cacheKey,
           [key |-> cacheKey, embedding |-> getEmbedding(query),
            response |-> response, query |-> query,
            systemPrompt |-> systemPrompt, model |-> optModel,
            expiresAt |-> t + ttl])

(***************************************************************************)
(* Requests, provider replies and responses.                               *)
(***************************************************************************)
DefaultModel == "claude-3-7-sonnet-20250219"

Strategies == {"exact", "semantic", "hybrid"}

\* an AIRequest with its mcpParams; parseResponse names the parser supplied
\* ("none" when the request has none)
MakeRequest(prompt, systemPrompt, parser, strategy, store, ttl, minSim) ==
    [prompt |-> prompt, systemPrompt |-> systemPrompt, model |-> DefaultModel,
     temperature |-> "0.5", parseResponse |-> parser,
     mcpParams |-> [cacheStrategy |-> strategy, storeResult |-> store,
                    cacheTTL |-> ttl, minSimilarity |-> minSim]]

\* the requests submitted where the queue and the timers are studied
QueueRequests == { MakeRequest("make a cube", "sys", "strict", "exact", TRUE, 1, 80) }

\* the requests submitted where the caches are studied
CacheRequests ==
    { MakeRequest("make a cube", "sys", "none", "exact", TRUE, 1, 80),
      MakeRequest("make a cube", "sys", "none", "hybrid", TRUE, 0, 0),
      MakeRequest("make a box", "sys", "none", "semantic", TRUE, 1, 80),
      MakeRequest("make a cube", "sys", "none", "exact", FALSE, 1, 80) }

\* what fetch can deliver: a completion (text and usage.totalTokens) ...
Replies ==
    { [text |-> "This is a test response", tokens |-> 150],
      [text |-> "Another response", tokens |-> 0],
      [text |-> "{", tokens |-> 150] }

\* ... or a failure: a rejected fetch, or a response that is not ok
Failures == {"network", "http4xx", "http5xx"}

NoSim == SimOf(0, 0, 0)

\* the AIResponse built by callProviderAPI
ProviderResponse(reply) ==
    [rawResponse |-> reply.text, data |-> Null, error |-> Null, success |-> TRUE,
     fromCache |-> FALSE, fromMCP |-> FALSE, totalTokens |-> reply.tokens,
     similarity |-> NoSim, cacheStrategy |-> Null]

\* the message of the Error thrown by callProviderAPI
FailureMessage(f) == IF f = "network" THEN "fetch failed" ELSE "API request failed"

\* the errorResponse built when the retries are used up
ErrorResponse(message) ==
    [rawResponse |-> Null, data |-> Null, error |-> message, success |-> FALSE,
     fromCache |-> FALSE, fromMCP |-> TRUE, totalTokens |-> 0,
     similarity |-> NoSim, cacheStrategy |-> Null]

\* stands for "no AIResponse" where a record is expected
NoResponse ==
    [rawResponse |-> Null, data |-> Null, error |-> Null, success |-> FALSE,
     fromCache |-> FALSE, fromMCP |-> FALSE, totalTokens |-> 0,
     similarity |-> NoSim, cacheStrategy |-> Null]

\* request.parseResponse applied to the raw text: [ok, data, message], where
\* message is the message of the error thrown (`new Error('Parsing failed')`
\* stands in for a thrown value that is not an Error).  The strict parser
\* throws an Error with a message on a text it does not know and an Error
\* without one (`new Error()`) on a truncated text.
Parse(parser, text) ==
    CASE parser = "identity" -> [ok |-> TRUE, data |-> text, message |-> ""]
      [] parser = "strict"   -> IF text = "This is a test response"
                                THEN [ok |-> TRUE, data |-> "parsed", message |-> ""]
                                ELSE IF text = "{"
                                THEN [ok |-> FALSE, data |-> Null, message |-> ""]
                                ELSE [ok |-> FALSE, data |-> Null,
                                      message |-> "Parsing failed"]
      [] OTHER               -> [ok |-> TRUE, data |-> Null, message |-> ""]

\* generateExactCacheKey: the template string over four fields
generateExactCacheKey(request) ==
    "mcp:exact:" \o request.model \o ":" \o request.temperature \o ":"
        \o request.systemPrompt \o ":" \o request.prompt

\* `mcpParams.minSimilarity || 0.8`
MinSimilarityOf(mcpParams) ==
    IF mcpParams.minSimilarity # 0 THEN mcpParams.minSimilarity ELSE 80

\* savings without the default estimate
SavedTokensNoDefault(response) == response.totalTokens

\* `cachedResult.usage?.totalTokens || 500`
SavedTokens(response) == IF response.totalTokens # 0 THEN response.totalTokens ELSE 500

(***************************************************************************)
(* State.                                                                  *)
(***************************************************************************)
VARIABLES
    now,              \* Date.now()
    requestQueue,     \* MCPService.requestQueue, in Map order
    timers,           \* pending setTimeout callbacks of enqueue: [id, due]
    processingQueue,  \* MCPService.processingQueue
    nextId,           \* number of requests enqueued so far, plus one
    pc,               \* where the drain loop is suspended
    cur,              \* the entry executeRequest is working on, with the two
                      \* caches as they were when it was called
    retryCount,       \* retryCount of the running executeRequest
    wakeAt,           \* when the backoff timer of executeRequest is due
    calls,            \* provider calls (fetch) made per request
    settles,          \* calls of resolve / reject per request, in order
    heap,             \* the AIResponse objects
    exactCache,       \* AICache.cache
    semanticCache,    \* BasicSemanticCacheProvider.cache
    semanticCacheEnabled, \* options.semanticCacheEnabled
    smartRoutingEnabled,  \* options.smartRoutingEnabled
    givenModel,       \* request.model as the caller passed it to enqueue, per request
    dispatched,       \* ids in the order they were handed to executeRequest
    lastPop,          \* the last getNextRequest: the entry taken, the queue before
    lastFailure,      \* the failure caught by executeRequest while it backs off
    failures,         \* provider calls that threw, per request
    running,          \* the calls of processQueue and of executeRequest that
                      \* have not returned yet
    storeLog,         \* the stores made on a cache used directly, in order
    lastGet,          \* the last AICache.get made directly at this clock reading
    lastFind,         \* the last findSimilar made directly at this clock reading
    strategyConfigs,  \* MCPConfigManager.strategyConfigs
    currentStrategy,  \* MCPConfigManager.currentStrategy
    multiProviderEnabled, \* MCPConfigManager.multiProviderEnabled
    preferredProvider,    \* MCPConfigManager.preferredProvider
    updates,          \* calls of updateStrategyConfig so far
    lastParams,       \* what the last call of getMCPParams returned
    routed,           \* the last model selections: their options, the model per level
    maxSize,          \* AICache.options.maxSize
    trimming,         \* a call of AICache.setMaxSize is in its loop for good
    mcpEnabled,       \* UnifiedAIService.mcpEnabled
    unified,          \* the calls of UnifiedAIService.processRequest: where each
                      \* one is and the MCP requests it has enqueued
    useOrder          \* the keys of the exact cache used directly, least recently
                      \* used (set, or read by get) first

svcVars == <<now, requestQueue, timers, processingQueue, nextId, pc, cur,
             retryCount, wakeAt, calls, settles, heap, exactCache,
             semanticCache, semanticCacheEnabled, smartRoutingEnabled, givenModel, dispatched, lastPop,
             lastFailure, failures, running>>

\* what the drain loop and the executor own
queueVars == <<requestQueue, timers, processingQueue, nextId, pc, cur,
               retryCount, wakeAt, calls, settles, heap, semanticCacheEnabled, smartRoutingEnabled, givenModel,
               dispatched, lastPop, lastFailure, failures, running>>

lruVars == <<maxSize, useOrder, trimming>>

probeVars == <<storeLog, lastGet, lastFind, lruVars>>

routerVars == <<routed>>

unifiedVars == <<mcpEnabled, unified>>

cfgVars == <<strategyConfigs, currentStrategy, multiProviderEnabled,
             preferredProvider, updates, lastParams, routerVars, unifiedVars>>

vars == <<svcVars, probeVars, cfgVars>>

ReqIds == 1..MaxReq

UnifiedCalls == 1..MaxFallbackCalls

\* a call of processRequest that was not made yet
NoCall == [status |-> "none", useMCP |-> Null, mcpId |-> 0, enqueued |-> 0]

\* getMCPParams not called yet
NoParams ==
    [cacheStrategy |-> Null, minSimilarity |-> 0, cacheTTL |-> 0, priority |-> Null,
     storeResult |-> FALSE, multiProviderEnabled |-> FALSE, preferredProvider |-> Null,
     strategy |-> Null]

\* the levels of complexityLevel, in increasing order
ComplexityLevels == <<"low", "medium", "high">>

LevelNames == {ComplexityLevels[i] : i \in 1..Len(ComplexityLevels)}

\* no model selected yet
NoRoute ==
    [via |-> Null,
     options |-> [taskType |-> Null, priority |-> Null, preferredProvider |-> Null,
                  requiredCapabilities |-> {}, promptQuarterTokens |-> 0,
                  outputTokenEstimate |-> 0],
     models |-> [cx \in LevelNames |-> Null]]

\* no direct lookup made at this clock reading, or none that returned an entry
NoGet == [value |-> NoRef]

NoFind == [query |-> Null, model |-> Null, minSimilarity |-> 0, value |-> NoRef,
           similarity |-> SimMinusOne]

\* the presets of MCPConfigManager; minSimilarity in hundredths, cacheTTL in
\* hours
DefaultStrategyConfigs ==
    [aggressive   |-> [cacheStrategy |-> "hybrid", minSimilarity |-> 65,
                       cacheTTL |-> 24, priority |-> "speed", storeResult |-> TRUE],
     balanced     |-> [cacheStrategy |-> "semantic", minSimilarity |-> 80,
                       cacheTTL |-> 12, priority |-> "quality", storeResult |-> TRUE],
     conservative |-> [cacheStrategy |-> "exact", minSimilarity |-> 95,
                       cacheTTL |-> 1, priority |-> "quality", storeResult |-> TRUE]]

NoEntry == [id |-> 0, request |-> Null, priority |-> 0, timestamp |-> 0]

InQueue(q, id) == \E i \in 1..Len(q) : q[i].id = id

Init ==
    /\ now = 0
    /\ requestQueue = <<>>
    /\ timers = {}
    /\ processingQueue = FALSE
    /\ nextId = 1
    /\ pc = "idle"
    /\ cur = NoEntry
    /\ retryCount = 0
    /\ wakeAt = 0
    /\ calls = [i \in ReqIds |-> 0]
    /\ settles = [i \in ReqIds |-> <<>>]
    /\ heap = <<>>
    /\ exactCache = <<>>
    /\ semanticCache = <<>>
    /\ semanticCacheEnabled = TRUE
    /\ smartRoutingEnabled = TRUE
    /\ givenModel = [i \in ReqIds |-> Null]
    /\ dispatched = <<>>
    /\ lastPop = [entry |-> NoEntry, before |-> <<>>]
    /\ lastFailure = Null
    /\ failures = [i \in ReqIds |-> 0]
    /\ running = [loops |-> 0, requests |-> 0]
    /\ storeLog = <<>>
    /\ lastGet = NoGet
    /\ lastFind = NoFind
    /\ strategyConfigs = DefaultStrategyConfigs
    /\ currentStrategy = "balanced"
    /\ multiProviderEnabled = FALSE
    /\ preferredProvider = Null
    /\ updates = 0
    /\ lastParams = NoParams
    /\ routed = NoRoute
    /\ maxSize = cacheMaxSize
    /\ trimming = FALSE
    /\ mcpEnabled = TRUE
    /\ unified = [u \in UnifiedCalls |-> NoCall]
    /\ useOrder = <<>>

(***************************************************************************)
(* SmartRouter.  Numbers are kept as integers: capability scores in        *)
(* halves, task weights in twentieths, priority weights and the complexity *)
(* multiplier in tenths, token costs in 10^-8 dollars, the prompt token    *)
(* estimate in quarters of a token (selectOptimalModel passes              *)
(* prompt.length / 4).  A total score is kept in units of 1 / (4 * 10^7).  *)
(***************************************************************************)
CapabilityFields ==
    {"reasoning", "creativity", "codeGeneration", "mathPrecision",
     "factualAccuracy", "contextUnderstanding"}

CapabilityScores(re, cr, cg, mp, fa, cu) ==
    [reasoning |-> re, creativity |-> cr, codeGeneration |-> cg,
     mathPrecision |-> mp, factualAccuracy |-> fa, contextUnderstanding |-> cu]

ModelMetadata(name, provider, costIn, costOut, ms, capabilities) ==
    [name |-> name, provider |-> provider, costPerInputToken |-> costIn,
     costPerOutputToken |-> costOut, averageResponseTimeMs |-> ms,
     capabilities |-> capabilities]

\* SmartRouter.modelsMetadata, in the order of the object literal
modelsMetadata ==
    << ModelMetadata("claude-3-7-sonnet-20250219", "CLAUDE", 388, 1554, 2000,
                     CapabilityScores(18, 16, 14, 12, 16, 18)),
       ModelMetadata("claude-3-opus-20240229", "CLAUDE", 1500, 4400, 3500,
                     CapabilityScores(19, 17, 16, 14, 18, 19)),
       ModelMetadata("claude-3-5-sonnet-20240229", "CLAUDE", 300, 900, 2200,
                     CapabilityScores(15, 14, 14, 12, 16, 16)),
       ModelMetadata("claude-3-haiku-20240229", "CLAUDE", 25, 125, 1000,
                     CapabilityScores(10, 10, 10, 8, 12, 10)),
       ModelMetadata("gpt-4o", "OPENAI", 500, 1500, 1800,
                     CapabilityScores(17, 16, 18, 16, 16, 17)),
       ModelMetadata("gpt-4o-mini", "OPENAI", 150, 600, 1000,
                     CapabilityScores(12, 12, 14, 10, 14, 12)),
       ModelMetadata("gpt-4", "OPENAI", 3000, 6000, 3000,
                     CapabilityScores(16, 15, 18, 15, 16, 16)),
       ModelMetadata("gpt-4.1", "OPENAI", 7500, 12000, 4000,
                     CapabilityScores(17, 16, 19, 18, 17, 17)),
       ModelMetadata("gpt-4-turbo-preview", "OPENAI", 1000, 3000, 2500,
                     CapabilityScores(17, 16, 18, 16, 17, 18)),
       ModelMetadata("gpt-3.5-turbo", "OPENAI", 50, 150, 800,
                     CapabilityScores(10, 10, 12, 8, 12, 10)) >>

ModelNames == {modelsMetadata[i].name : i \in 1..Len(modelsMetadata)}

\* getModelMetadata
getModelMetadata(model) ==
    modelsMetadata[CHOOSE i \in 1..Len(modelsMetadata) : modelsMetadata[i].name = model]

\* `let bestModel = 'claude-3-7-sonnet-20250219'` in selectModel
DefaultBestModel == "claude-3-7-sonnet-20250219"

\* `let highestScore = -1`, in units of 1 / (4 * 10^7)
InitialHighestScore == 0 - 40000000

\* the defaults of selectModel: promptTokenEstimate = 500 (in quarters),
\* outputTokenEstimate = 800
DefaultPromptQuarterTokens == 2000

DefaultOutputTokens == 800

\* priorityWeights of selectModel, in tenths
priorityWeights(priority) ==
    CASE priority = "speed" -> [speed |-> 6, quality |-> 3, cost |-> 1]
      [] priority = "quality" -> [speed |-> 1, quality |-> 8, cost |-> 1]
      [] priority = "cost" -> [speed |-> 2, quality |-> 2, cost |-> 6]

\* complexityFactors of selectModel
requiredLevel(complexityLevel) ==
    CASE complexityLevel = "low" -> 3
      [] complexityLevel = "medium" -> 6
      [] complexityLevel = "high" -> 8

\* mapCapabilityToMetadataField: `mapping[capability] || capability`
mapCapabilityToMetadataField(capability) ==
    CASE capability = "reasoning" -> "reasoning"
      [] capability = "creative" -> "creativity"
      [] capability = "code" -> "codeGeneration"
      [] capability = "math" -> "mathPrecision"
      [] capability = "factual" -> "factualAccuracy"
      [] capability = "context" -> "contextUnderstanding"
      [] OTHER -> capability

\* `requiredCapabilities.every(...)`: a field the table does not have is
\* undefined, and `undefined >= requiredLevel` is false
capabilitiesMet(metadata, requiredCapabilities, complexityLevel) ==
    \A cap \in requiredCapabilities :
        LET mappedCap == mapCapabilityToMetadataField(cap)
        IN /\ mappedCap \in DOMAIN metadata.capabilities
           /\ metadata.capabilities[mappedCap] >= 2 * requiredLevel(complexityLevel)

\* getRelevantCapabilities, in twentieths; a capability the task does not
\* list weighs 0
getRelevantCapabilities(taskType) ==
    CASE taskType = "code" -> CapabilityScores(4, 0, 10, 0, 2, 4)
      [] taskType = "creative" -> CapabilityScores(4, 10, 0, 0, 2, 4)
      [] taskType = "analysis" -> CapabilityScores(8, 0, 0, 2, 6, 4)
      [] taskType = "math" -> CapabilityScores(6, 0, 0, 10, 4, 0)
      [] taskType = "factual" -> CapabilityScores(4, 0, 0, 0, 12, 4)
      [] taskType = "cad" -> CapabilityScores(6, 0, 4, 0, 6, 4)
      [] OTHER -> CapabilityScores(4, 4, 3, 3, 3, 3)

RECURSIVE SumOver(_, _)
SumOver(f, S) ==
    IF S = {} THEN 0
    ELSE LET c == CHOOSE x \in S : TRUE IN f[c] + SumOver(f, S \ {c})

\* a multiplier that favours quality for the simple tasks
complexityMultiplierInverted(complexityLevel) ==
    CASE complexityLevel = "low" -> 13
      [] complexityLevel = "medium" -> 10
      [] complexityLevel = "high" -> 7

\* `{ low: 0.7, medium: 1.0, high: 1.3 }[complexityLevel]`, in tenths
complexityMultiplier(complexityLevel) ==
    CASE complexityLevel = "low" -> 7
      [] complexityLevel = "medium" -> 10
      [] complexityLevel = "high" -> 13

\* `: 5`, the quality score where no capability is relevant, times 400
MiddleQualityScore == 2000

\* calculateQualityScore, times 400
calculateQualityScore(metadata, taskType, complexityLevel) ==
    LET relevantCapabilities == getRelevantCapabilities(taskType)
        counted == {c \in CapabilityFields :
                       relevantCapabilities[c] > 0 /\ metadata.capabilities[c] # 0}
        weightedScore ==
            SumOver([c \in CapabilityFields |->
                        metadata.capabilities[c] * relevantCapabilities[c]], counted)
        totalWeight == SumOver(relevantCapabilities, counted)
    IN IF totalWeight > 0
       THEN (weightedScore * complexityMultiplier(complexityLevel) * 20) \div totalWeight
       ELSE MiddleQualityScore

\* `10 - metadata.averageResponseTimeMs / 500`, times 5
speedScore(metadata) == 50 - metadata.averageResponseTimeMs \div 100

\* `const maxCost = 0.1`, in units of 2.5 * 10^-9 dollars
maxCost == 40000000

\* `10 - (Math.min(totalCostEstimate, maxCost) / maxCost) * 10`, times 4 * 10^6
costScore(metadata, promptQuarterTokens, outputTokenEstimate) ==
    LET totalCostEstimate ==
            promptQuarterTokens * metadata.costPerInputToken
            + 4 * outputTokenEstimate * metadata.costPerOutputToken
    IN maxCost - (IF totalCostEstimate < maxCost THEN totalCostEstimate ELSE maxCost)

\* the entry of modelScores of one model
ModelScore(metadata, options, complexityLevel) ==
    IF ~capabilitiesMet(metadata, options.requiredCapabilities, complexityLevel)
    THEN [model |-> metadata.name, totalScore |-> 0, meetsRequirements |-> FALSE]
    ELSE LET w == priorityWeights(options.priority)
         IN [model |-> metadata.name,
             totalScore |->
                 calculateQualityScore(metadata, options.taskType, complexityLevel)
                     * w.quality * 10000
                 + speedScore(metadata) * w.speed * 800000
                 + costScore(metadata, options.promptQuarterTokens,
                             options.outputTokenEstimate) * w.cost,
             meetsRequirements |-> TRUE]

\* `preferredProvider && metadata.provider !== preferredProvider`
ProviderSkipped(metadata, preferred) ==
    preferred # Null /\ metadata.provider # preferred

\* the first loop of selectModel: modelScores, in insertion order
RECURSIVE ScoreModels(_, _, _)
ScoreModels(i, options, complexityLevel) ==
    IF i > Len(modelsMetadata) THEN <<>>
    ELSE LET rest == ScoreModels(i + 1, options, complexityLevel)
         IN IF ProviderSkipped(modelsMetadata[i], options.preferredProvider)
            THEN rest
            ELSE <<ModelScore(modelsMetadata[i], options, complexityLevel)>> \o rest

\* a second loop that stops at the first entry that meets the requirements
FindBestFirst(scores, i, bestModel, highestScore) ==
    IF \E k \in i..Len(scores) : scores[k].meetsRequirements
    THEN scores[CHOOSE k \in i..Len(scores) :
                    /\ scores[k].meetsRequirements
                    /\ \A l \in i..(k - 1) : ~scores[l].meetsRequirements].model
    ELSE bestModel

\* the second loop of selectModel
RECURSIVE FindBest(_, _, _, _)
FindBest(scores, i, bestModel, highestScore) ==
    IF i > Len(scores) THEN bestModel
    ELSE IF scores[i].meetsRequirements /\ scores[i].totalScore > highestScore
         THEN FindBest(scores, i + 1, scores[i].model, scores[i].totalScore)
         ELSE FindBest(scores, i + 1, bestModel, highestScore)

\* SmartRouter.selectModel
selectModel(options, complexityLevel) ==
    FindBest(ScoreModels(1, options, complexityLevel), 1, DefaultBestModel,
             InitialHighestScore)

\* MCPConfigManager.modelCapabilitiesMap, as mapCapabilities reads it
mapCapabilities(capabilities) ==
    {CASE cap = "creative" -> "creativity"
       [] cap = "reasoning" -> "reasoning"
       [] cap = "code" -> "codeGeneration"
       [] cap = "math" -> "mathPrecision"
       [] cap = "factual" -> "factualAccuracy"
       [] cap = "contextual" -> "contextUnderstanding"
       [] OTHER -> cap : cap \in capabilities}

\* the options getRecommendedModel passes to selectModel
RecommendOptions(taskType, requiredCapabilities, configs, strategy, provider) ==
    [taskType |-> taskType, priority |-> configs[strategy].priority,
     preferredProvider |-> provider,
     requiredCapabilities |-> mapCapabilities(requiredCapabilities),
     promptQuarterTokens |-> DefaultPromptQuarterTokens,
     outputTokenEstimate |-> DefaultOutputTokens]

\* MCPConfigManager.getRecommendedModel
getRecommendedModel(taskType, taskComplexity, required, configs, strategy, provider) ==
    selectModel(RecommendOptions(taskType, required, configs, strategy, provider),
                taskComplexity)

\* the part of an AIRequest that selectOptimalModel reads: metadata.type,
\* metadata.complexity, the metadata.requires... flags, metadata.promptTokens
\* (0: absent) and mcpParams.priority / preferredProvider (Null: absent)
RoutedRequest(prompt, type, complexity, requires, promptTokens, priority, provider) ==
    [prompt |-> prompt,
     metadata |-> [type |-> type, complexity |-> complexity, requires |-> requires,
                   promptTokens |-> promptTokens],
     mcpParams |-> [priority |-> priority, preferredProvider |-> provider]]

\* the complexity level selectOptimalModel derives from metadata.complexity
OptimalComplexity(request) ==
    IF request.metadata.complexity \in {"simple", "low"} THEN "low"
    ELSE IF request.metadata.complexity \in {"complex", "high"} THEN "high"
    ELSE "medium"

\* the options MCPService.selectOptimalModel passes to selectModel
OptimalOptions(request) ==
    [taskType |-> IF request.metadata.type = Null THEN "general"
                  ELSE request.metadata.type,
     priority |-> IF request.mcpParams.priority = Null THEN "quality"
                  ELSE request.mcpParams.priority,
     preferredProvider |-> IF request.mcpParams.preferredProvider = Null THEN "CLAUDE"
                           ELSE request.mcpParams.preferredProvider,
     requiredCapabilities |-> request.metadata.requires,
     promptQuarterTokens |-> IF request.metadata.promptTokens # 0
                             THEN 4 * request.metadata.promptTokens
                             ELSE Len(request.prompt),
     outputTokenEstimate |-> DefaultOutputTokens]

\* MCPService.selectOptimalModel
selectOptimalModel(request) ==
    selectModel(OptimalOptions(request), OptimalComplexity(request))

(***************************************************************************)
(* MCPService: queue and drain loop.                                       *)
(***************************************************************************)
\* a dispatcher whose tie test is `<=`: among equal timestamps the last wins
RECURSIVE ScanQueueTieLast(_, _, _, _, _)
ScanQueueTieLast(q, i, highestPriority, oldestTimestamp, selected) ==
    IF i > Len(q) THEN selected
    ELSE IF q[i].priority > highestPriority
         THEN ScanQueueTieLast(q, i + 1, q[i].priority, q[i].timestamp, i)
    ELSE IF q[i].priority = highestPriority /\ q[i].timestamp <= oldestTimestamp
         THEN ScanQueueTieLast(q, i + 1, highestPriority, q[i].timestamp, i)
    ELSE ScanQueueTieLast(q, i + 1, highestPriority, oldestTimestamp, selected)

\* the loop of getNextRequest over the Map entries: index of the selected
\* entry, 0 for none
RECURSIVE ScanQueue(_, _, _, _, _)
ScanQueue(q, i, highestPriority, oldestTimestamp, selected) ==
    IF i > Len(q) THEN selected
    ELSE IF q[i].priority > highestPriority
         THEN ScanQueue(q, i + 1, q[i].priority, q[i].timestamp, i)
    ELSE IF q[i].priority = highestPriority /\ q[i].timestamp < oldestTimestamp
         THEN ScanQueue(q, i + 1, highestPriority, q[i].timestamp, i)
    ELSE ScanQueue(q, i + 1, highestPriority, oldestTimestamp, selected)

\* a dispatcher that ignores the priorities
getNextRequestFifo(q) == IF Len(q) = 0 THEN 0 ELSE 1

\* a getNextRequest that finds nothing to take
getNextRequestNone(q) == 0

getNextRequest(q) == ScanQueue(q, 1, -1, Infinity, 0)

\* processQueue from the head of its while loop to its next suspension:
\* either it takes the next entry and enters executeRequest, or it leaves
\* the loop and clears processingQueue
ProcessQueue(q) ==
    LET sel == getNextRequest(q) IN
    IF Len(q) > 0 /\ sel # 0
    THEN /\ requestQueue' = RemoveAt(q, sel)
         /\ processingQueue' = TRUE
         /\ cur' = q[sel] @@ [exact |-> exactCache', semantic |-> semanticCache']
         /\ retryCount' = 0
         /\ pc' = "lookup"
         /\ dispatched' = Append(dispatched, q[sel].id)
         /\ lastPop' = [entry |-> q[sel], before |-> q]
    ELSE /\ requestQueue' = q
         /\ processingQueue' = FALSE
         /\ cur' = NoEntry
         /\ retryCount' = 0
         /\ pc' = "idle"
         /\ UNCHANGED <<dispatched, lastPop>>

\* processQueue was called and ran up to its first suspension, or to its
\* end when it found nothing to take
LoopStarted ==
    running' = [loops |-> running.loops + (IF pc' = "idle" THEN 0 ELSE 1),
                requests |-> running.requests + (IF pc' = "idle" THEN 0 ELSE 1)]

\* the executeRequest awaited by processQueue returned and the loop went on
\* to its next suspension, or to its end
LoopContinued ==
    running' = [loops |-> running.loops - (IF pc' = "idle" THEN 1 ELSE 0),
                requests |-> running.requests - (IF pc' = "idle" THEN 1 ELSE 0)]

\* an enqueue that starts processQueue whatever processingQueue says
LoopIdleAlways(processing) == TRUE

\* `if (!this.processingQueue)` in enqueue
LoopIdle(processing) == ~processing

\* a call of resolve or reject of the promise of request id
Settle(id, outcome) == settles' = [settles EXCEPT ![id] = Append(@, outcome)]

\* resolve(result): the MCPResponse, with the request it answers and the time
Resolved(cacheHit, ref, response, tokens) ==
    [kind |-> "resolve", cacheHit |-> cacheHit, response |-> ref,
     delivered |-> response, savedTokens |-> tokens, error |-> Null,
     request |-> cur.request, at |-> now]

Rejected(message) ==
    [kind |-> "reject", cacheHit |-> FALSE, response |-> NoRef,
     delivered |-> NoResponse, savedTokens |-> 0, error |-> message,
     request |-> Null, at |-> now]

\* a routing step that selects a model whether or not the request has one
RouteRequestAlways(request, enabled) ==
    IF enabled THEN [request EXCEPT !.model = selectOptimalModel(request)]
    ELSE request

\* `if (this.options.smartRoutingEnabled && !request.model)
\*      request.model = this.selectOptimalModel(request)`
RouteRequest(request, enabled) ==
    IF enabled /\ request.model = Null
    THEN [request EXCEPT !.model = selectOptimalModel(request)]
    ELSE request

\* enqueue(request, priority): the routing step, then the executor of the
\* promise, including the synchronous start of processQueue when no drain
\* loop is running
EnqueueCall(request, priority) ==
    /\ nextId <= MaxReq
    /\ UNCHANGED <<now, wakeAt, calls, settles, heap, exactCache, semanticCache,
                   semanticCacheEnabled, smartRoutingEnabled>>
    /\ givenModel' = [givenModel EXCEPT ![nextId] = request.model]
    /\ LET entry == [id |-> nextId,
                     request |-> RouteRequest(request, smartRoutingEnabled),
                     priority |-> priorityLevels[priority], timestamp |-> now]
           q1 == Append(requestQueue, entry)
       IN /\ timers' = timers \cup {[id |-> nextId, due |-> now + timeoutMs]}
          /\ nextId' = nextId + 1
          /\ IF LoopIdle(processingQueue)
             THEN ProcessQueue(q1) /\ LoopStarted
             ELSE /\ requestQueue' = q1
                  /\ UNCHANGED <<processingQueue, cur, retryCount, pc, dispatched,
                                 lastPop, running>>
    /\ UNCHANGED <<lastFailure, failures>>

\* enqueue called on the service directly
Enqueue(request, priority) ==
    /\ EnqueueCall(request, priority)
    /\ UNCHANGED <<probeVars, cfgVars>>

\* Map.prototype.delete on the queue: the entry of request id, if any, goes
MapDelete(q, id) == SelectSeq(q, LAMBDA e : e.id # id)

\* a timeout callback that does not look at the queue
StillQueuedAlways(q, id) == TRUE

\* `this.requestQueue.has(requestId)` in the timeout callback
StillQueued(q, id) == InQueue(q, id)

\* the setTimeout callback of enqueue
TimeoutFire(tm) ==
    /\ tm \in timers
    /\ now >= tm.due
    /\ timers' = timers \ {tm}
    /\ IF StillQueued(requestQueue, tm.id)
       THEN /\ requestQueue' = MapDelete(requestQueue, tm.id)
            /\ Settle(tm.id, Rejected("Request timeout"))
       ELSE UNCHANGED <<requestQueue, settles>>
    /\ UNCHANGED <<now, processingQueue, nextId, pc, cur, retryCount, wakeAt,
                   calls, heap, exactCache, semanticCache, semanticCacheEnabled, smartRoutingEnabled, givenModel,
                   dispatched, lastPop>>
    /\ UNCHANGED <<lastFailure, failures, running, probeVars, cfgVars>>

(***************************************************************************)
(* MCPService.executeRequest.                                              *)
(***************************************************************************)
\* a retry test that is off by one
ShouldRetryOneMore(rc) == rc <= maxRetries

\* `retryCount < this.options.maxRetries`
ShouldRetry(rc) == rc < maxRetries

\* a backoff that waits the same delay after every failure
BackoffDelayConstant(rc) == retryDelay

\* `this.options.retryDelay * Math.pow(2, retryCount)`
BackoffDelay(rc) == retryDelay * (2 ^ rc)

\* lookups that consult the semantic cache whatever the exact cache returned
CacheLookupBoth(request, exact, semantic, enabled, t) ==
    LET mcpParams == request.mcpParams
        useExact == mcpParams.cacheStrategy \in {"exact", "hybrid"}
        g == IF useExact
             THEN AICacheGet(exact, generateExactCacheKey(request), t)
             ELSE [cache |-> exact, value |-> NoRef]
        useSemantic == mcpParams.cacheStrategy \in {"semantic", "hybrid"} /\ enabled
        f == IF useSemantic
             THEN findSimilar(semantic, request.prompt, request.model,
                              MinSimilarityOf(mcpParams), t)
             ELSE [cache |-> semantic, match |-> NoMatch]
        semanticHit == g.value = NoRef /\ useSemantic /\ f.match.response # NoRef
    IN [exact |-> g.cache, semantic |-> f.cache,
        usedExact |-> useExact, usedSemantic |-> useSemantic,
        semanticHit |-> semanticHit,
        cachedResult |-> IF g.value # NoRef THEN g.value ELSE f.match.response,
        similarity |-> IF semanticHit THEN f.match.similarity ELSE SimOne]

\* the cache lookups of executeRequest: the exact cache for exact / hybrid,
\* then, without an exact result, the semantic cache for semantic / hybrid
CacheLookup(request, exact, semantic, enabled, t) ==
    LET mcpParams == request.mcpParams
        useExact == mcpParams.cacheStrategy \in {"exact", "hybrid"}
        g == IF useExact
             THEN AICacheGet(exact, generateExactCacheKey(request), t)
             ELSE [cache |-> exact, value |-> NoRef]
        useSemantic == /\ g.value = NoRef
                       /\ mcpParams.cacheStrategy \in {"semantic", "hybrid"}
                       /\ enabled
        f == IF useSemantic
             THEN findSimilar(semantic, request.prompt, request.model,
                              MinSimilarityOf(mcpParams), t)
             ELSE [cache |-> semantic, match |-> NoMatch]
        semanticHit == useSemantic /\ f.match.response # NoRef
    IN [exact |-> g.cache, semantic |-> f.cache,
        usedExact |-> useExact, usedSemantic |-> useSemantic,
        semanticHit |-> semanticHit,
        cachedResult |-> IF g.value # NoRef THEN g.value ELSE f.match.response,
        similarity |-> IF semanticHit THEN f.match.similarity ELSE SimOne]

\* what executeRequest writes into the cached AIResponse object on a hit
MarkCached(response, look) ==
    [response EXCEPT
        !.similarity = IF look.semanticHit THEN look.similarity ELSE @,
        !.cacheStrategy = IF look.semanticHit THEN "semantic" ELSE @,
        !.fromCache = TRUE,
        !.fromMCP = TRUE]

\* executeRequest from its entry to the first of: a cache hit returned (the
\* loop resolves the promise and goes on), or the provider call started
ExecuteLookup ==
    /\ pc = "lookup"
    /\ LET request == cur.request
           look == CacheLookup(request, exactCache, semanticCache,
                               semanticCacheEnabled, now)
           ref == look.cachedResult
       IN /\ exactCache' = look.exact
          /\ semanticCache' = look.semantic
          /\ IF ref # NoRef
             THEN /\ heap' = [heap EXCEPT ![ref] = MarkCached(@, look)]
                  /\ Settle(cur.id,
                            Resolved(TRUE, ref, MarkCached(heap[ref], look),
                                     SavedTokens(heap[ref])))
                  /\ ProcessQueue(requestQueue) /\ LoopContinued
                  /\ UNCHANGED calls
             ELSE /\ pc' = "calling"
                  /\ calls' = [calls EXCEPT ![cur.id] = @ + 1]
                  /\ UNCHANGED <<heap, settles, requestQueue, processingQueue,
                                 cur, retryCount, dispatched, lastPop, running>>
    /\ UNCHANGED <<now, timers, nextId, wakeAt, semanticCacheEnabled, smartRoutingEnabled, givenModel>>
    /\ UNCHANGED <<lastFailure, failures, probeVars, cfgVars>>

\* an executeRequest that does not look at what the parser did
ParsedResponseUnchecked(request, reply) ==
    [ProviderResponse(reply) EXCEPT !.fromMCP = TRUE]

\* the response after the parser ran (or was skipped)
ParsedResponse(request, reply) ==
    LET response == ProviderResponse(reply)
        runParser == request.parseResponse # "none" /\ reply.text # ""
        parsed == IF runParser THEN Parse(request.parseResponse, reply.text)
                  ELSE [ok |-> TRUE, data |-> Null, message |-> ""]
    IN [response EXCEPT
           !.data = parsed.data,
           !.error = IF ~parsed.ok /\ parsed.message # "" THEN parsed.message ELSE @,
           !.success = parsed.ok /\ @,
           !.fromMCP = TRUE]

\* a storeInCaches that leaves the exact cache alone
StoreExactSkipped(request, ref, ttl, exact, t) == exact

\* storeInCaches(request, response, ttl): the exact cache after it
StoreExact(request, ref, ttl, exact, t) ==
    IF request.mcpParams.cacheStrategy \in {"exact", "hybrid"}
    THEN AICacheSet(exact, generateExactCacheKey(request), ref, ttl, t,
                    cacheMaxSize, cacheDefaultTtl)
    ELSE exact

\* a storeInCaches that does not look at options.semanticCacheEnabled
StoreSemanticUngated(request, ref, ttl, semantic, enabled, t) ==
    IF request.mcpParams.cacheStrategy \in {"semantic", "hybrid"}
    THEN SemanticStore(semantic, request.prompt, ref, request.model,
                       request.systemPrompt, ttl, t)
    ELSE semantic

\* storeInCaches(request, response, ttl): the semantic cache after it
StoreSemantic(request, ref, ttl, semantic, enabled, t) ==
    IF request.mcpParams.cacheStrategy \in {"semantic", "hybrid"} /\ enabled
    THEN SemanticStore(semantic, request.prompt, ref, request.model,
                       request.systemPrompt, ttl, t)
    ELSE semantic

\* `mcpParams.cacheTTL || this.options.defaultTTL`
StoreTtl(mcpParams) == IF mcpParams.cacheTTL # 0 THEN mcpParams.cacheTTL ELSE defaultTTL

\* the provider call returned a completion: parse, store, return the response
ProviderReturn(reply) ==
    /\ pc = "calling"
    /\ LET request == cur.request
           response == ParsedResponse(request, reply)
           ref == Len(heap) + 1
           ttl == StoreTtl(request.mcpParams)
       IN /\ heap' = Append(heap, response)
          /\ IF request.mcpParams.storeResult
             THEN /\ exactCache' = StoreExact(request, ref, ttl, exactCache, now)
                  /\ semanticCache' = StoreSemantic(request, ref, ttl, semanticCache,
                                                    semanticCacheEnabled, now)
             ELSE UNCHANGED <<exactCache, semanticCache>>
          /\ Settle(cur.id, Resolved(FALSE, ref, response, 0))
          /\ ProcessQueue(requestQueue) /\ LoopContinued
    /\ UNCHANGED <<now, timers, nextId, wakeAt, calls, semanticCacheEnabled, smartRoutingEnabled, givenModel>>
    /\ UNCHANGED <<lastFailure, failures, probeVars, cfgVars>>

\* an executeRequest that throws the last error instead
ExhaustedThrows(message, ref) == Rejected(message)

\* the return value of executeRequest once the retries are used up: the
\* error response, returned and so resolved by processQueue
ExhaustedOutcome(message, ref) == Resolved(FALSE, ref, ErrorResponse(message), 0)

\* the provider call threw: back off and retry, or give the error response
ProviderFail(f) ==
    /\ pc = "calling"
    /\ UNCHANGED <<now, timers, nextId, calls, exactCache, semanticCache,
                   semanticCacheEnabled, smartRoutingEnabled, givenModel>>
    /\ failures' = [failures EXCEPT ![cur.id] = @ + 1]
    /\ IF ShouldRetry(retryCount)
       THEN /\ pc' = "backoff"
            /\ wakeAt' = now + BackoffDelay(retryCount)
            /\ retryCount' = retryCount + 1
            /\ lastFailure' = f
            /\ UNCHANGED <<heap, settles, requestQueue, processingQueue, cur,
                           dispatched, lastPop, running>>
       ELSE /\ heap' = Append(heap, ErrorResponse(FailureMessage(f)))
            /\ Settle(cur.id, ExhaustedOutcome(FailureMessage(f), Len(heap) + 1))
            /\ ProcessQueue(requestQueue) /\ LoopContinued
            /\ UNCHANGED <<wakeAt, lastFailure>>
    /\ UNCHANGED <<probeVars, cfgVars>>

\* the backoff timer fired: executeRequest(request, retryCount + 1) starts
BackoffDone ==
    /\ pc = "backoff"
    /\ now >= wakeAt
    /\ pc' = "lookup"
    /\ lastFailure' = Null
    /\ UNCHANGED <<failures, running>>
    /\ UNCHANGED <<now, requestQueue, timers, processingQueue, nextId, cur,
                   retryCount, wakeAt, calls, settles, heap, exactCache,
                   semanticCache, semanticCacheEnabled, smartRoutingEnabled, givenModel, dispatched, lastPop>>
    /\ UNCHANGED <<probeVars, cfgVars>>

\* the clock advances; a timer that is due fires first, and the lookups of
\* executeRequest take no time
Tick ==
    /\ now < MaxTime
    /\ \A tm \in timers : tm.due > now
    /\ pc = "backoff" => wakeAt > now
    /\ pc # "lookup"
    /\ now' = now + 1
    /\ UNCHANGED <<requestQueue, timers, processingQueue, nextId, pc, cur,
                   retryCount, wakeAt, calls, settles, heap, exactCache,
                   semanticCache, semanticCacheEnabled, smartRoutingEnabled, givenModel, dispatched, lastPop>>
    /\ lastGet' = NoGet
    /\ lastFind' = NoFind
    /\ UNCHANGED <<lastFailure, failures, running, storeLog, lruVars, cfgVars>>

Next ==
    \/ \E r \in QueueRequests, p \in Priorities : Enqueue(r, p)
    \/ \E tm \in timers : TimeoutFire(tm)
    \/ ExecuteLookup
    \/ \E reply \in Replies : ProviderReturn(reply)
    \/ \E f \in Failures : ProviderFail(f)
    \/ BackoffDone
    \/ Tick

Spec == Init /\ [][Next]_vars

\* the completions and the failure delivered where the caches are studied
CacheReplies == { reply \in Replies : reply.text # "{" }

CacheFailures == {"network"}

\* the same service, fed with the requests that exercise the caches
NextCaching ==
    \/ \E r \in CacheRequests : nextId <= MaxCacheReq /\ Enqueue(r, "normal")
    \/ \E tm \in timers : TimeoutFire(tm)
    \/ ExecuteLookup
    \/ \E reply \in CacheReplies : ProviderReturn(reply)
    \/ \E f \in CacheFailures : ProviderFail(f)
    \/ BackoffDone
    \/ Tick

SpecCaching == Init /\ [][NextCaching]_vars

(***************************************************************************)
(* Claims about the queue, the drain loop and the retries                  *)
(* (specification Spec).                                                   *)
(***************************************************************************)
\* the provider call of the outcome returned a text and the parser of the
\* request threw on it
ParserThrew(o) ==
    /\ o.kind = "resolve"
    /\ ~o.cacheHit
    /\ o.request.parseResponse # "none"
    /\ o.delivered.rawResponse \notin {Null, ""}
    /\ ~Parse(o.request.parseResponse, o.delivered.rawResponse).ok

\* the requests that are neither resolved nor rejected yet
Unsettled == { id \in ReqIds : id < nextId /\ settles[id] = <<>> }

TimerFired(id) == id < nextId /\ \A tm \in timers : tm.id # id

\* C1: whenever getNextRequest dequeues a request, that request has the
\* highest priority weight of all requests in the queue at that moment
C1_StrictPriority ==
    \A i \in 1..Len(lastPop.before) :
        lastPop.before[i].priority <= lastPop.entry.priority

\* a high-priority request was taken past an older request of lower priority
C1_Witness ==
    /\ lastPop.entry.priority = priorityLevels.high
    /\ \E i \in 1..Len(lastPop.before) :
          /\ lastPop.before[i].priority < priorityLevels.high
          /\ lastPop.before[i].id < lastPop.entry.id

\* C2: among the queued requests of equal priority weight getNextRequest
\* takes the one enqueued earliest, also among requests enqueued within the
\* same clock reading
C2_FifoWithinBand ==
    \A i \in 1..Len(lastPop.before) :
        lastPop.before[i].priority = lastPop.entry.priority
            => lastPop.entry.id <= lastPop.before[i].id

\* a request was taken while a later one of the same priority and the same
\* timestamp was waiting
C2_Witness ==
    \E i \in 1..Len(lastPop.before) :
        /\ lastPop.before[i].priority = lastPop.entry.priority
        /\ lastPop.before[i].timestamp = lastPop.entry.timestamp
        /\ lastPop.before[i].id > lastPop.entry.id

\* C3: no promise is settled twice: resolve and reject are called at most
\* once per request in total, whatever the order of timers, drain loop and
\* provider completions
C3_SettledOnce == \A id \in ReqIds : Len(settles[id]) <= 1

\* the timeout callback of a request ran and the request was resolved
C3_Witness ==
    \E id \in ReqIds :
        /\ TimerFired(id)
        /\ Len(settles[id]) = 1
        /\ settles[id][1].kind = "resolve"

\* C4 as stated: every outcome of enqueue, a timeout included, is a resolved
\* response and never a rejected promise
C4_NeverRejects ==
    \A id \in ReqIds : \A k \in 1..Len(settles[id]) : settles[id][k].kind = "resolve"

\* C4 amended: a request handed to executeRequest is always resolved with a
\* response, which has success = false and an error once the retries are
\* used up; only a request still queued at its timeout is rejected, with
\* 'Request timeout'
C4_RejectsOnlyQueuedTimeout ==
    \A id \in ReqIds : \A k \in 1..Len(settles[id]) :
        LET o == settles[id][k] IN
        /\ o.kind = "reject" =>
              /\ o.error = "Request timeout"
              /\ calls[id] = 0
              /\ \A j \in 1..Len(dispatched) : dispatched[j] # id
        /\ o.kind = "resolve" =>
              /\ \E j \in 1..Len(dispatched) : dispatched[j] = id
              /\ (~o.delivered.success /\ ~ParserThrew(o) /\ ~o.cacheHit)
                    => o.delivered.error # Null

\* one request got the error response after its last retry, another one was
\* rejected by its timeout
C4_Witness ==
    \E a, b \in ReqIds :
        /\ Len(settles[a]) = 1 /\ settles[a][1].kind = "resolve"
        /\ ~settles[a][1].delivered.success
        /\ calls[a] = 1 + maxRetries
        /\ Len(settles[b]) = 1 /\ settles[b][1].kind = "reject"

\* C5: at most 1 + maxRetries provider calls are made for a request, and no
\* attempt beyond that budget is ever scheduled
C5_RetryBound ==
    /\ \A id \in ReqIds : calls[id] <= 1 + maxRetries
    /\ retryCount <= maxRetries

\* a request used all its attempts and ended with the error response
C5_Witness ==
    \E id \in ReqIds :
        /\ calls[id] = 1 + maxRetries
        /\ Len(settles[id]) = 1
        /\ ~settles[id][1].delivered.success

\* C6 as stated: every request is settled no later than timeoutMs after it
\* was enqueued
C6_TimeoutBound ==
    /\ \A i \in 1..Len(requestQueue) :
          now <= requestQueue[i].timestamp + timeoutMs
    /\ cur.id # 0 => now <= cur.timestamp + timeoutMs

(***************************************************************************)
(* Claims about the caches behind executeRequest (specification            *)
(* SpecCaching).                                                           *)
(***************************************************************************)
\* request b was enqueued right after request a, with an equal request whose
\* strategy consults the exact cache and stores its result, and both were
\* resolved
ResubmittedPair(a, b) ==
    /\ a \in ReqIds /\ b \in ReqIds /\ b = a + 1
    /\ Len(settles[a]) = 1 /\ settles[a][1].kind = "resolve"
    /\ Len(settles[b]) = 1 /\ settles[b][1].kind = "resolve"
    /\ settles[a][1].request = settles[b][1].request
    /\ settles[a][1].request.mcpParams.storeResult
    /\ settles[a][1].request.mcpParams.cacheStrategy \in {"exact", "hybrid"}

\* the second answer came no later than cacheTTL (the default TTL when the
\* request gives none) after the first
WithinTtl(a, b) ==
    settles[b][1].at <= settles[a][1].at + StoreTtl(settles[a][1].request.mcpParams)

\* equal response contents
SameContents(x, y) ==
    /\ x.rawResponse = y.rawResponse
    /\ x.data = y.data
    /\ x.success = y.success
    /\ x.error = y.error
    /\ x.totalTokens = y.totalTokens

\* the second answer is the first one, served from the cache
ServedFromCache(a, b) ==
    /\ settles[b][1].cacheHit
    /\ settles[b][1].delivered.fromCache
    /\ calls[b] = 0
    /\ SameContents(settles[a][1].delivered, settles[b][1].delivered)

\* C7 as stated: a request that stores its result and uses the exact cache,
\* submitted twice in a row with the second answer within cacheTTL, gets the
\* same contents twice, the second from the cache and without a provider call
C7_ExactIdempotent ==
    \A a, b \in ReqIds :
        ResubmittedPair(a, b) /\ WithinTtl(a, b) => ServedFromCache(a, b)

\* the first answer came from a provider call that completed, so that
\* storeInCaches ran for it
AnsweredByProvider(a) ==
    /\ ~settles[a][1].cacheHit
    /\ settles[a][1].delivered.rawResponse # Null

\* C7 amended: when the first submission was answered by a completed provider
\* call and the second is answered within the TTL in force, the second is a
\* cache hit that delivers the very response object stored by the first,
\* marked fromCache, without a provider call
C7_IdempotentAfterStore ==
    \A a, b \in ReqIds :
        ResubmittedPair(a, b) /\ AnsweredByProvider(a) /\ WithinTtl(a, b)
            => /\ ServedFromCache(a, b)
               /\ settles[b][1].response = settles[a][1].response

\* a resubmission answered from the cache exactly cacheTTL after the first
\* answer
C7_Witness ==
    \E a, b \in ReqIds :
        /\ ResubmittedPair(a, b) /\ AnsweredByProvider(a)
        /\ settles[a][1].request.mcpParams.cacheTTL = 1
        /\ settles[b][1].at = settles[a][1].at + 1
        /\ settles[b][1].cacheHit

(***************************************************************************)
(* The two caches used directly: AICache.set / get and                     *)
(* BasicSemanticCacheProvider.store / findSimilar, called with inputs      *)
(* drawn from small sets while the clock runs.  The data stored is the     *)
(* number of the store, so that a result identifies the store it is from.  *)
(***************************************************************************)
CacheKeys == {"k1", "k2"}

\* customTtl of set: 0 stands for an omitted (or zero) argument
CustomTtls == {0, 1}

StoreQueries == {"make a cube", "make a box"}

FindQueries == {"make a cube", "cube"}

StoreModels == {DefaultModel, "gpt-4"}

FindModels == {DefaultModel}

SemanticTtls == {1, 2}

\* minSimilarity of findSimilar, in hundredths
MinSimilarities == {80, 97}

\* aiCache.set(key, data, customTtl)
CacheSet(key, customTtl) ==
    /\ Len(storeLog) < MaxCacheOps
    /\ exactCache' = AICacheSet(exactCache, key, Len(storeLog) + 1, customTtl, now,
                                cacheMaxSize, cacheDefaultTtl)
    /\ storeLog' = Append(storeLog,
                          [query |-> Null, t |-> now,
                           ttl |-> EffectiveTtl(customTtl, cacheDefaultTtl)])
    /\ UNCHANGED <<now, semanticCache, queueVars, lastGet, lastFind, lruVars, cfgVars>>

\* aiCache.get(key)
CacheGet(key) ==
    /\ LET g == AICacheGet(exactCache, key, now)
       IN /\ exactCache' = g.cache
          /\ lastGet' = [value |-> g.value]
    /\ UNCHANGED <<now, semanticCache, queueVars, storeLog, lastFind, lruVars, cfgVars>>

\* semanticCache.store(query, response, {model, systemPrompt, ttl})
SemStore(query, optModel, ttl) ==
    /\ Len(storeLog) < MaxCacheOps
    /\ semanticCache' = SemanticStore(semanticCache, query, Len(storeLog) + 1,
                                      optModel, "sys", ttl, now)
    /\ storeLog' = Append(storeLog,
                          [query |-> query, t |-> now, ttl |-> ttl])
    /\ UNCHANGED <<now, exactCache, queueVars, lastGet, lastFind, lruVars, cfgVars>>

\* semanticCache.findSimilar(query, {model, minSimilarity})
SemFind(query, optModel, minSimilarity) ==
    /\ LET f == findSimilar(semanticCache, query, optModel, minSimilarity, now)
       IN /\ semanticCache' = f.cache
          /\ lastFind' = IF f.match.response = NoRef THEN NoFind
                          ELSE [query |-> query, model |-> optModel,
                                minSimilarity |-> minSimilarity,
                                value |-> f.match.response,
                                similarity |-> f.match.similarity]
    /\ UNCHANGED <<now, exactCache, queueVars, storeLog, lastGet, lruVars, cfgVars>>

NextCache ==
    \/ \E key \in CacheKeys, customTtl \in CustomTtls : CacheSet(key, customTtl)
    \/ \E key \in CacheKeys : CacheGet(key)
    \/ \E query \in StoreQueries, m \in StoreModels, ttl \in SemanticTtls :
          SemStore(query, m, ttl)
    \/ \E query \in FindQueries, m \in FindModels, ms \in MinSimilarities :
          SemFind(query, m, ms)
    \/ Tick

SpecCache == Init /\ [][NextCache]_vars

(***************************************************************************)
(* Claims about the caches used directly (specification SpecCache).        *)
(***************************************************************************)
\* the last direct lookup of its kind, made at the clock reading `now`,
\* returned an entry
GetReturned == lastGet.value # NoRef

FindReturned == lastFind.value # NoRef

\* the time at which the TTL of store number k is over
TtlOverAt(k) == storeLog[k].t + storeLog[k].ttl

\* C8 as stated: an entry stored at t with TTL tau is returned by no lookup
\* made at t' >= t + tau, the lookup at exactly t + tau included
C8_GoneAtTtl ==
    /\ GetReturned => now < TtlOverAt(lastGet.value)
    /\ FindReturned => now < TtlOverAt(lastFind.value)

\* C8 amended: an entry stored at t with TTL tau (for set without a TTL, or
\* with 0, the default TTL of the cache) is returned by no lookup made at
\* t' > t + tau; the lookup at exactly t + tau still returns it
C8_GoneAfterTtl ==
    /\ GetReturned => now <= TtlOverAt(lastGet.value)
    /\ FindReturned => now <= TtlOverAt(lastFind.value)

\* both caches returned an entry at exactly t + tau, the exact cache one
\* stored with the default TTL
C8_Witness ==
    /\ GetReturned /\ now = TtlOverAt(lastGet.value)
    /\ FindReturned /\ now = TtlOverAt(lastFind.value)
    /\ storeLog[lastGet.value].ttl = cacheDefaultTtl

\* the similarity of the query of the last findSimilar to the entry returned
ReturnedSimilarity ==
    cosineSimilarity(getEmbedding(lastFind.query),
                     getEmbedding(storeLog[lastFind.value].query))

\* C9: findSimilar never returns an entry whose similarity to the query is
\* below minSimilarity, and the similarity it reports is that of the entry
C9_ThresholdRespected ==
    FindReturned =>
        /\ SimGE(ReturnedSimilarity, SimPct(lastFind.minSimilarity))
        /\ lastFind.similarity = ReturnedSimilarity

\* findSimilar returned an entry while a live entry it could have taken lay
\* below the threshold
C9_Witness ==
    /\ FindReturned
    /\ lastFind.minSimilarity > 0
    /\ \E i \in 1..Len(semanticCache) :
          /\ semanticCache[i].expiresAt >= now
          /\ ~ModelMismatch(lastFind.model, semanticCache[i].model)
          /\ ~SimGE(cosineSimilarity(getEmbedding(lastFind.query),
                                     semanticCache[i].embedding),
                    SimPct(lastFind.minSimilarity))

(***************************************************************************)
(* MCPConfigManager: the strategy presets and their setters.               *)
(***************************************************************************)
StrategyNames == {"aggressive", "balanced", "conservative"}

ConfigFields == {"cacheStrategy", "minSimilarity", "cacheTTL", "priority", "storeResult"}

\* AIProviderType, and Null for undefined
Providers == {Null, "claude", "openai", "CLAUDE", "OPENAI"}


\* a Partial<MCPStrategyConfig>: the fields it has, and their values
PartialConfigs ==
    { [has |-> h, val |-> v] :
        h \in { {"minSimilarity"}, {"cacheStrategy"}, {"cacheTTL", "storeResult"} },
        v \in [cacheStrategy : {"exact", "semantic"}, minSimilarity : {70, 90},
               cacheTTL : {6}, priority : {"cost"}, storeResult : {FALSE}] }

\* `{ ...this.strategyConfigs[strategy], ...config }`
MergeConfig(old, config) ==
    [f \in ConfigFields |-> IF f \in config.has THEN config.val[f] ELSE old[f]]

\* a setter that resets the presets on the way
PresetsReset(configs) == DefaultStrategyConfigs

\* what setStrategy, setMultiProviderEnabled and setPreferredProvider do to
\* strategyConfigs: nothing
PresetsKept(configs) == configs

updateStrategyConfig(strategy, config) ==
    /\ updates < MaxUpdates
    /\ strategyConfigs' =
          [strategyConfigs EXCEPT ![strategy] = MergeConfig(@, config)]
    /\ updates' = updates + 1
    /\ UNCHANGED <<currentStrategy, multiProviderEnabled, preferredProvider,
                   lastParams, svcVars, probeVars, unifiedVars, routerVars>>

setStrategy(strategy) ==
    /\ currentStrategy' = strategy
    /\ strategyConfigs' = PresetsKept(strategyConfigs)
    /\ UNCHANGED <<multiProviderEnabled, preferredProvider, updates,
                   lastParams, svcVars, probeVars, unifiedVars, routerVars>>

setMultiProviderEnabled(enabled) ==
    /\ multiProviderEnabled' = enabled
    /\ strategyConfigs' = PresetsKept(strategyConfigs)
    /\ UNCHANGED <<currentStrategy, preferredProvider, updates, lastParams,
                   svcVars, probeVars, unifiedVars, routerVars>>

setPreferredProvider(provider) ==
    /\ preferredProvider' = provider
    /\ strategyConfigs' = PresetsKept(strategyConfigs)
    /\ UNCHANGED <<currentStrategy, multiProviderEnabled, updates, lastParams,
                   svcVars, probeVars, unifiedVars, routerVars>>

\* a getMCPParams that always reads the strategy the manager is built with
getMCPParamsOfDefault(configs, strategy, multi, provider) ==
    [cacheStrategy |-> configs["balanced"].cacheStrategy,
     minSimilarity |-> configs["balanced"].minSimilarity,
     cacheTTL |-> configs["balanced"].cacheTTL,
     priority |-> configs["balanced"].priority,
     storeResult |-> configs["balanced"].storeResult,
     multiProviderEnabled |-> multi,
     preferredProvider |-> provider]

\* getMCPParams: `{ ...this.strategyConfigs[this.currentStrategy],
\* multiProviderEnabled, preferredProvider }`
getMCPParams(configs, strategy, multi, provider) ==
    [cacheStrategy |-> configs[strategy].cacheStrategy,
     minSimilarity |-> configs[strategy].minSimilarity,
     cacheTTL |-> configs[strategy].cacheTTL,
     priority |-> configs[strategy].priority,
     storeResult |-> configs[strategy].storeResult,
     multiProviderEnabled |-> multi,
     preferredProvider |-> provider]

\* a call of getMCPParams; the result is kept with the strategy last set
GetMCPParamsCall ==
    /\ LET params == getMCPParams(strategyConfigs, currentStrategy,
                                  multiProviderEnabled, preferredProvider)
       IN lastParams' = [f \in DOMAIN params \cup {"strategy"} |->
                            IF f = "strategy" THEN currentStrategy ELSE params[f]]
    /\ UNCHANGED <<strategyConfigs, currentStrategy, multiProviderEnabled,
                   preferredProvider, updates, svcVars, probeVars, unifiedVars, routerVars>>

NextConfig ==
    \/ \E st \in StrategyNames, config \in PartialConfigs :
          updateStrategyConfig(st, config)
    \/ \E st \in StrategyNames : setStrategy(st)
    \/ \E enabled \in BOOLEAN : setMultiProviderEnabled(enabled)
    \/ \E provider \in Providers : setPreferredProvider(provider)
    \/ GetMCPParamsCall

SpecConfig == Init /\ [][NextConfig]_vars

(***************************************************************************)
(* Claims about MCPConfigManager (specification SpecConfig).               *)
(***************************************************************************)
StrategyOrdering ==
    /\ strategyConfigs.aggressive.minSimilarity
          < strategyConfigs.balanced.minSimilarity
    /\ strategyConfigs.balanced.minSimilarity
          < strategyConfigs.conservative.minSimilarity
    /\ strategyConfigs.conservative.cacheStrategy = "exact"

\* C10 as stated: in every reachable state of MCPConfigManager, after any
\* calls of setStrategy, updateStrategyConfig, setMultiProviderEnabled and
\* setPreferredProvider, aggressive.minSimilarity < balanced.minSimilarity <
\* conservative.minSimilarity and conservative.cacheStrategy is 'exact'
C10_OrderingAlways == StrategyOrdering

\* C10 amended: the ordering holds for the presets the manager is built
\* with, in every state reached without updateStrategyConfig, and no call
\* of setStrategy, setMultiProviderEnabled or setPreferredProvider changes
\* a preset
C10_OrderingOfPresets ==
    /\ [](updates = 0 => StrategyOrdering)
    /\ [][updates' = updates => strategyConfigs' = strategyConfigs]_vars

\* every setter but updateStrategyConfig has been used, and the ordering holds
C10_Witness ==
    /\ updates = 0
    /\ currentStrategy = "conservative"
    /\ multiProviderEnabled
    /\ preferredProvider = "openai"
    /\ StrategyOrdering

\* the values the presets are built with
PresetValues(strategy) ==
    CASE strategy = "aggressive"   -> [cacheStrategy |-> "hybrid", minSimilarity |-> 65]
      [] strategy = "balanced"     -> [cacheStrategy |-> "semantic", minSimilarity |-> 80]
      [] strategy = "conservative" -> [cacheStrategy |-> "exact", minSimilarity |-> 95]

\* C11: getMCPParams returns the preset of the strategy last set (hybrid /
\* 0.65, semantic / 0.80, exact / 0.95 for the presets as built) with the
\* current multiProviderEnabled and preferredProvider; setStrategy leaves
\* these two alone, and setMultiProviderEnabled and setPreferredProvider
\* leave the current strategy and the presets alone
C11_ParamsReflectConfig ==
    /\ [][lastParams' # lastParams =>
            /\ lastParams'.strategy = currentStrategy
            /\ lastParams'.multiProviderEnabled = multiProviderEnabled
            /\ lastParams'.preferredProvider = preferredProvider
            /\ \A f \in ConfigFields :
                  lastParams'[f] = strategyConfigs[currentStrategy][f]
            /\ updates = 0 =>
                  /\ lastParams'.cacheStrategy
                        = PresetValues(currentStrategy).cacheStrategy
                  /\ lastParams'.minSimilarity
                        = PresetValues(currentStrategy).minSimilarity]_vars
    /\ [][currentStrategy' # currentStrategy =>
            /\ multiProviderEnabled' = multiProviderEnabled
            /\ preferredProvider' = preferredProvider]_vars
    /\ [][multiProviderEnabled' # multiProviderEnabled
             \/ preferredProvider' # preferredProvider =>
            /\ currentStrategy' = currentStrategy
            /\ strategyConfigs' = strategyConfigs]_vars

\* getMCPParams was called after setStrategy('aggressive'),
\* setMultiProviderEnabled(true) and setPreferredProvider('CLAUDE')
C11_Witness ==
    /\ lastParams.strategy = "aggressive"
    /\ lastParams.minSimilarity = 65
    /\ lastParams.multiProviderEnabled
    /\ lastParams.preferredProvider = "CLAUDE"
    /\ updates = 0

(***************************************************************************)
(* The selections of SmartRouter, MCPConfigManager.getRecommendedModel and *)
(* the routing step of enqueue, called with inputs drawn from small sets.  *)
(***************************************************************************)

\* the inputs of the selections
TaskTypes == {"general", "code", "creative", "analysis", "math", "factual", "cad", "other"}

RouterPriorities == {"speed", "quality", "cost"}

RequiredSets == { {}, {"math"} }

RoutedRequests ==
    { RoutedRequest("make a cube", ty, cx, rq, 0, pr, pv) :
         ty \in {Null, "cad"}, cx \in {Null, "simple", "complex"},
         rq \in {{}, {"math"}}, pr \in {Null},
         pv \in {Null, "CLAUDE", "OPENAI", "openai"} }

\* a selection is kept with its options; the selections made with the same
\* options at other levels are kept with it
KeepSelection(via, options, complexityLevel, model) ==
    IF routed.via = via /\ routed.options = options
    THEN [routed EXCEPT !.models[complexityLevel] = model]
    ELSE [via |-> via, options |-> options,
          models |-> [cx \in LevelNames |->
                         IF cx = complexityLevel THEN model ELSE Null]]

\* smartRouter.selectModel called with the default token estimates
SelectModelCall(taskType, priority, provider, requiredCapabilities, complexityLevel) ==
    /\ LET options == [taskType |-> taskType, priority |-> priority,
                       preferredProvider |-> provider,
                       requiredCapabilities |-> requiredCapabilities,
                       promptQuarterTokens |-> DefaultPromptQuarterTokens,
                       outputTokenEstimate |-> DefaultOutputTokens]
       IN routed' = KeepSelection("selectModel", options, complexityLevel,
                           selectModel(options, complexityLevel))
    /\ UNCHANGED <<strategyConfigs, currentStrategy, multiProviderEnabled,
                   preferredProvider, updates, lastParams, svcVars, probeVars, unifiedVars>>

\* mcpConfigManager.getRecommendedModel
GetRecommendedModelCall(taskType, taskComplexity, requiredCapabilities) ==
    /\ routed' = KeepSelection("getRecommendedModel",
                        RecommendOptions(taskType, requiredCapabilities,
                                         strategyConfigs, currentStrategy,
                                         preferredProvider),
                        taskComplexity,
                        getRecommendedModel(taskType, taskComplexity,
                                            requiredCapabilities, strategyConfigs,
                                            currentStrategy, preferredProvider))
    /\ UNCHANGED <<strategyConfigs, currentStrategy, multiProviderEnabled,
                   preferredProvider, updates, lastParams, svcVars, probeVars, unifiedVars>>

\* the routing step of enqueue for a request that names no model
SelectOptimalModelCall(request) ==
    /\ routed' = KeepSelection("enqueue", OptimalOptions(request),
                        OptimalComplexity(request), selectOptimalModel(request))
    /\ UNCHANGED <<strategyConfigs, currentStrategy, multiProviderEnabled,
                   preferredProvider, updates, lastParams, svcVars, probeVars, unifiedVars>>

NextRouter ==
    \/ \E ty \in TaskTypes, pr \in RouterPriorities, pv \in Providers,
          rq \in RequiredSets, cx \in LevelNames :
          SelectModelCall(ty, pr, pv, rq, cx)
    \/ \E ty \in TaskTypes, cx \in LevelNames, rq \in RequiredSets :
          GetRecommendedModelCall(ty, cx, rq)
    \/ \E r \in RoutedRequests : SelectOptimalModelCall(r)

SpecRouter == Init /\ [][NextRouter]_vars

\* the reasoning score of a model, in halves
Reasoning(model) == getModelMetadata(model).capabilities.reasoning

LevelIndex(cx) == CHOOSE i \in 1..Len(ComplexityLevels) : ComplexityLevels[i] = cx

\* the selections kept were made with the same options at their levels, and
\* the reasoning score does not decrease with the level
MonotoneInLevel ==
    \A a, b \in LevelNames :
       (LevelIndex(a) < LevelIndex(b)
           /\ routed.models[a] # Null /\ routed.models[b] # Null)
       => Reasoning(routed.models[a]) <= Reasoning(routed.models[b])

ProviderNamed(provider) ==
    CASE provider \in {"CLAUDE", "claude"} -> "claude"
      [] provider \in {"OPENAI", "openai"} -> "openai"
      [] OTHER -> provider

\* some model of the provider passes the capability gate of the options
SomeModelPasses(provider, options, complexityLevel) ==
    \E i \in 1..Len(modelsMetadata) :
       /\ ProviderNamed(modelsMetadata[i].provider) = ProviderNamed(provider)
       /\ capabilitiesMet(modelsMetadata[i], options.requiredCapabilities,
                          complexityLevel)

\* C13: for every preferredProvider value P and every combination of the other
\* selection inputs, whenever a model of provider P passes the capability gate
\* the model selected is of provider P; a request without a model enqueued
\* with preferredProvider CLAUDE is routed to a Claude model.
C13_ProviderGating ==
    \A cx \in LevelNames :
       routed.models[cx] # Null =>
          LET P == routed.options.preferredProvider
              selected == getModelMetadata(routed.models[cx])
          IN /\ (P # Null /\ SomeModelPasses(P, routed.options, cx))
                   => ProviderNamed(selected.provider) = ProviderNamed(P)
             /\ (routed.via = "enqueue" /\ P = "CLAUDE")
                   => selected.provider = "CLAUDE"

(***************************************************************************)
(* Claims about the order and the number of provider calls                 *)
(* (specification Spec).                                                   *)
(***************************************************************************)
\* the position of a request in the order of dispatch, 0 if not dispatched
DispatchIndex(id) ==
    IF \E k \in 1..Len(dispatched) : dispatched[k] = id
    THEN CHOOSE k \in 1..Len(dispatched) : dispatched[k] = id
    ELSE 0

\* C14 as stated: a low-priority request RA is submitted to an idle service
\* (the first request of the service is such a request), a high-priority
\* request RB is submitted before RA has completed: the provider call of RB
\* is made before the provider call of RA.
C14_HighCalledBeforeLow ==
    \A i \in 1..Len(requestQueue) :
       (/\ cur.id = 1
        /\ cur.priority = priorityLevels.low
        /\ requestQueue[i].priority = priorityLevels.high
        /\ calls[cur.id] > 0)
       => calls[requestQueue[i].id] > 0

\* C14, amended: a request submitted to an idle service is handed to
\* executeRequest within enqueue, before any later submission; requests are
\* executed one at a time in the order of dispatch, provider calls are made
\* for dispatched requests only, and the dispatcher never takes a low-priority
\* request from a queue that holds a high-priority one.
C14_OverrideAmongQueued ==
    /\ [](\A k \in 1..Len(dispatched) :
             k < Len(dispatched) => settles[dispatched[k]] # <<>>)
    /\ [](\A id \in ReqIds : calls[id] > 0 => DispatchIndex(id) > 0)
    /\ [](lastPop.entry.priority = priorityLevels.low
             => \A i \in 1..Len(lastPop.before) :
                   lastPop.before[i].priority # priorityLevels.high)
    /\ [][(nextId' # nextId /\ ~processingQueue)
             => /\ cur'.id = nextId
                /\ dispatched' = Append(dispatched, nextId)
                /\ requestQueue' = <<>>]_vars

\* RA (low) went to an idle service and had its provider call; RB (high),
\* submitted while RA was in flight after another low-priority request, was
\* taken past that request once RA was settled and has its provider call
C14_Witness ==
    /\ dispatched = <<1, 3>>
    /\ lastPop.entry.priority = priorityLevels.high
    /\ cur.id = 3
    /\ calls[1] > 0 /\ calls[3] > 0 /\ calls[2] = 0
    /\ settles[1] # <<>>
    /\ Len(requestQueue) = 1
    /\ requestQueue[1].id = 2
    /\ requestQueue[1].priority = priorityLevels.low
    /\ \E i \in 1..Len(lastPop.before) :
          lastPop.before[i].id = 2 /\ lastPop.before[i].timestamp < cur.timestamp

\* retryDelay * (2^0 + ... + 2^(k-1)): the backoff waited before attempt k+1
TotalBackoff(k) == retryDelay * (2 ^ k - 1)

\* C15: after the k-th failed attempt (k = 0, 1, ...) the executor waits
\* retryDelay * 2^k and then makes the next attempt: attempt k+1 is made no
\* earlier than retryDelay * (1 + ... + 2^(k-1)) after the request was
\* submitted, and a request whose first two attempts fail and whose third
\* succeeds has made exactly three provider calls.
C15_ExponentialBackoff ==
    /\ [][(pc = "calling" /\ pc' = "backoff")
             => /\ retryCount' = retryCount + 1
                /\ wakeAt' - now = retryDelay * 2 ^ retryCount]_vars
    /\ [][(pc = "backoff" /\ pc' # "backoff") => (pc' = "lookup" /\ now = wakeAt)]_vars
    /\ [](pc = "backoff" => (calls[cur.id] = retryCount /\ now <= wakeAt))
    /\ [](pc = "calling" =>
             /\ calls[cur.id] = retryCount + 1
             /\ now >= cur.timestamp + TotalBackoff(retryCount))

\* the provider failed on attempts 1 and 2 and attempt 3 succeeded: three
\* provider calls, success, and retryDelay + 2 * retryDelay waited
C15_Witness ==
    \E id \in ReqIds :
       /\ calls[id] = 3
       /\ Len(settles[id]) = 1
       /\ settles[id][1].kind = "resolve"
       /\ settles[id][1].delivered.success
       /\ ~settles[id][1].cacheHit
       /\ settles[id][1].at >= 3 * retryDelay

(***************************************************************************)
(* Progress of the queue (specification SpecLive).  The clock of the model *)
(* stops at MaxTime, so a request is accepted while its deadline lies      *)
(* within that horizon.  The event loop runs every callback that is ready: *)
(* timers that are due, the continuation of executeRequest, and the        *)
(* completion of a provider call, which is assumed to return.              *)
(***************************************************************************)
LiveEnqueue(request, priority) ==
    /\ nextId <= MaxLiveReq
    /\ now + timeoutMs <= MaxTime
    /\ Enqueue(request, priority)

ProviderCompletes ==
    \/ \E reply \in Replies : ProviderReturn(reply)
    \/ \E f \in Failures : ProviderFail(f)

NextLive ==
    \/ \E r \in QueueRequests, p \in Priorities : LiveEnqueue(r, p)
    \/ \E tm \in timers : TimeoutFire(tm)
    \/ ExecuteLookup
    \/ ProviderCompletes
    \/ BackoffDone
    \/ Tick

EventLoopFairness ==
    /\ WF_vars(Tick)
    /\ WF_vars(\E tm \in timers : TimeoutFire(tm))
    /\ WF_vars(ExecuteLookup)
    /\ WF_vars(BackoffDone)
    /\ WF_vars(ProviderCompletes)

SpecLive == Init /\ [][NextLive]_vars /\ EventLoopFairness

\* the promise of the request was rejected by its timeout callback
TimedOut(id) == settles[id] # <<>> /\ settles[id][1].kind = "reject"

\* C16: every request accepted by enqueue is eventually handed to
\* executeRequest or failed by its timeout, and no request is in the queue
\* while the drain loop is idle (processingQueue false), provider calls
\* returning.
C16_QueueProgress ==
    /\ \A id \in ReqIds :
          (id < nextId) ~> (DispatchIndex(id) > 0 \/ TimedOut(id))
    /\ [](~processingQueue => requestQueue = <<>>)

\* a request waited behind another one and was handed to executeRequest when
\* the drain loop came round, and the loop went idle on an empty queue after
\* the last request
C16_Witness ==
    /\ dispatched = <<1, 2>>
    /\ settles[1] # <<>> /\ settles[2] # <<>>
    /\ settles[2][1].kind = "resolve"
    /\ settles[2][1].at > 0
    /\ ~processingQueue
    /\ requestQueue = <<>>

(***************************************************************************)
(* Claims about refusals and failures (specification Spec).                *)
(***************************************************************************)
\* C17: the request queue is bounded: a submit made while the queue is at
\* capacity is refused with QueueFull and leaves the queued requests as they
\* are.  MCPOptions has no capacity; whatever it is, fewer requests wait than
\* were submitted behind the request in flight once it is reached.
C17_QueueBounded == Len(requestQueue) < MaxReq - 1

\* C18: a provider call answered with a 4xx error is not retried: the
\* executor never backs off for a new attempt after such an answer (only
\* transport failures and 5xx answers are retried), so the request has made
\* exactly one provider call when the 4xx answer is its first.
C18_ClientErrorNotRetried ==
    pc = "backoff" => lastFailure \in {"network", "http5xx"}

C20_DeadlineCheckedAtDispatch ==
    (pc = "lookup" /\ retryCount = 0 /\ cur.id # 0)
    => now < cur.timestamp + timeoutMs

(***************************************************************************)
(* Claims about the responses delivered and the caches written by          *)
(* executeRequest (specification SpecCaching).  UnifiedAIService hands     *)
(* the request to enqueue with the mcpParams of getMCPParams merged in and *)
(* the parser the caller gave, if any; the requests of SpecCaching have    *)
(* none, as the request of the test of the MCP path.                       *)
(***************************************************************************)
\* the outcomes delivered so far, with the request id they answer
\* the outcome is the response of a provider call that completed
FromProvider(o) ==
    /\ o.kind = "resolve"
    /\ ~o.cacheHit
    /\ o.delivered.rawResponse # Null

\* C21: when the provider call succeeds, also for a request without a
\* parser, the response delivered has success = true, fromCache not true and
\* data equal to the text the provider returned, and a request whose first
\* provider call succeeds has made exactly one call
C21_SuccessContent ==
    \A id \in ReqIds : \A k \in 1..Len(settles[id]) :
        LET o == settles[id][k] IN
        FromProvider(o) =>
            /\ o.delivered.success
            /\ ~o.delivered.fromCache
            /\ o.delivered.data = o.delivered.rawResponse
            /\ calls[id] >= 1

\* the entries of a cache, as a set
Entries(c) == { c[i] : i \in 1..Len(c) }

\* this step ends the executeRequest of the request in cur: the drain loop
\* resolves its promise
Finishes == cur.id # 0 /\ settles'[cur.id] # settles[cur.id]

\* the outcome delivered by the step that ends executeRequest
Delivered == settles'[cur.id][Len(settles'[cur.id])]

\* the provider call completed and storeInCaches was called for a strategy
\* in S
StoredFor(S) ==
    /\ FromProvider(Delivered)
    /\ cur.request.mcpParams.storeResult
    /\ cur.request.mcpParams.cacheStrategy \in S

\* the exact cache has, for the key of the request, an entry that it did not
\* have when executeRequest started
NewExactEntry ==
    \E e \in Entries(exactCache') \ Entries(cur.exact) :
        e.key = generateExactCacheKey(cur.request)

\* the semantic cache has an entry for the prompt of the request that it did
\* not have when executeRequest started
NewSemanticEntry ==
    \E e \in Entries(semanticCache') \ Entries(cur.semantic) :
        e.query = cur.request.prompt

\* C22 as stated: when executeRequest finishes, a new exact-cache entry for
\* the key of the request exists iff the provider call succeeded, storeResult
\* is true and the strategy is exact or hybrid; a new semantic-cache entry
\* exists iff the provider call succeeded, storeResult is true and the
\* strategy is semantic or hybrid; in every other case (storeResult false, a
\* cache hit, a final provider failure) both caches are as they were when
\* executeRequest started
C22_WritesExactlyWhenStored ==
    [][Finishes =>
          /\ NewExactEntry <=> StoredFor({"exact", "hybrid"})
          /\ NewSemanticEntry <=> StoredFor({"semantic", "hybrid"})
          /\ ~StoredFor(Strategies) =>
                /\ exactCache' = cur.exact
                /\ semanticCache' = cur.semantic]_vars

\* cache c is cache b after the removal of entries that have expired by
\* time t, and of nothing else
OnlyExpiredRemoved(c, b, t) ==
    /\ \A e \in Entries(b) \ Entries(c) : e.expiresAt < t
    /\ c = SelectSeq(b, LAMBDA e : e \in Entries(c))

\* C22 amended: the two equivalences hold as stated; in every other case no
\* entry is added to or replaced in either cache, but the lookups of
\* executeRequest may have deleted entries, all of them expired
C22_WritesOnlyWhenStored ==
    [][Finishes =>
          /\ NewExactEntry <=> StoredFor({"exact", "hybrid"})
          /\ NewSemanticEntry <=> StoredFor({"semantic", "hybrid"})
          /\ ~StoredFor(Strategies) =>
                /\ OnlyExpiredRemoved(exactCache', cur.exact, now)
                /\ OnlyExpiredRemoved(semanticCache', cur.semantic, now)]_vars

\* a request was answered by the provider and stored in the exact cache; the
\* next one, with the same key and storeResult = false, was answered by the
\* provider after its lookup had deleted the expired entry: the exact cache
\* is empty
C22_Witness ==
    /\ settles[1] # <<>> /\ settles[2] # <<>>
    /\ FromProvider(settles[1][1])
    /\ settles[1][1].request.mcpParams.storeResult
    /\ settles[1][1].request.mcpParams.cacheStrategy = "exact"
    /\ FromProvider(settles[2][1])
    /\ ~settles[2][1].request.mcpParams.storeResult
    /\ exactCache = <<>>

\* this step is the lookup part of executeRequest for the request in cur: it
\* ends with the provider call started or with the cached response returned
LooksUp == pc = "lookup" /\ (calls' # calls \/ Finishes)

\* what the lookups of the request in cur do in the current state
CurrentLookup ==
    CacheLookup(cur.request, exactCache, semanticCache, semanticCacheEnabled, now)

\* the exact cache holds a live entry for the key of the request in cur
ExactLive ==
    AICacheGet(exactCache, generateExactCacheKey(cur.request), now).value # NoRef

\* C23: a request that hits in a cache is answered with cacheHit = true and
\* causes no provider call; with strategy hybrid the semantic cache is
\* consulted only after an exact miss, with strategy exact the semantic cache
\* is never consulted (nor changed), with strategy semantic the exact cache is
\* never consulted (nor changed)
C23_LookupOrder ==
    /\ [](\A id \in ReqIds : \A k \in 1..Len(settles[id]) :
             settles[id][k].cacheHit =>
                 /\ calls[id] = 0
                 /\ settles[id][k].delivered.fromCache)
    /\ [][LooksUp =>
            LET look == CurrentLookup
                S == cur.request.mcpParams.cacheStrategy
            IN /\ S = "exact" =>
                     /\ look.usedExact /\ ~look.usedSemantic
                     /\ semanticCache' = semanticCache
               /\ S = "semantic" =>
                     /\ look.usedSemantic /\ ~look.usedExact
                     /\ exactCache' = exactCache
               /\ S = "hybrid" =>
                     /\ look.usedExact
                     /\ look.usedSemantic <=> ~ExactLive
                     /\ ExactLive => semanticCache' = semanticCache
               /\ look.cachedResult # NoRef =>
                     /\ Finishes
                     /\ Delivered.cacheHit
                     /\ calls' = calls
               /\ look.cachedResult = NoRef =>
                     /\ ~Finishes
                     /\ calls'[cur.id] = calls[cur.id] + 1]_vars

\* a hybrid request missed the exact cache and was answered from the
\* semantic cache, without a provider call
C23_Witness ==
    \E id \in ReqIds :
        /\ settles[id] # <<>>
        /\ settles[id][1].cacheHit
        /\ settles[id][1].request.mcpParams.cacheStrategy = "hybrid"
        /\ settles[id][1].delivered.cacheStrategy = "semantic"
        /\ calls[id] = 0
        /\ \A i \in 1..Len(exactCache) :
              exactCache[i].key # generateExactCacheKey(settles[id][1].request)

\* the default estimate of the tokens saved by a hit
DefaultSavedTokens == 500

\* C24 as stated: on every cache hit savingsEstimate.tokens is the
\* usage.totalTokens of the cached response (every response that reaches a
\* cache has a usage, built by callProviderAPI, so the fallback for a missing
\* one never applies); on every other resolved outcome it is 0
C24_SavingsEqualUsage ==
    \A id \in ReqIds : \A k \in 1..Len(settles[id]) :
        LET o == settles[id][k] IN
        o.kind = "resolve" =>
            /\ o.cacheHit => o.savedTokens = o.delivered.totalTokens
            /\ ~o.cacheHit => o.savedTokens = 0

\* C24 amended: on a cache hit savingsEstimate.tokens is the
\* usage.totalTokens of the cached response when that is not 0, and 500 when
\* it is 0 (what callProviderAPI records for a completion without usage); on
\* every other resolved outcome it is 0
C24_SavingsAccounting ==
    \A id \in ReqIds : \A k \in 1..Len(settles[id]) :
        LET o == settles[id][k] IN
        o.kind = "resolve" =>
            /\ (o.cacheHit /\ o.delivered.totalTokens # 0)
                  => o.savedTokens = o.delivered.totalTokens
            /\ (o.cacheHit /\ o.delivered.totalTokens = 0)
                  => o.savedTokens = DefaultSavedTokens
            /\ ~o.cacheHit => o.savedTokens = 0

\* one hit on a response with usage (100, 50) saved 150 tokens, after a
\* provider answer that saved none
C24_Witness ==
    /\ settles[1] # <<>> /\ settles[2] # <<>>
    /\ ~settles[1][1].cacheHit /\ settles[1][1].savedTokens = 0
    /\ settles[2][1].cacheHit /\ settles[2][1].savedTokens = 150
    /\ settles[2][1].delivered.totalTokens = 150

\* the AIResponse objects held by an entry of one of the two caches
CachedRefs ==
    { exactCache[i].data : i \in 1..Len(exactCache) }
        \cup { semanticCache[i].response : i \in 1..Len(semanticCache) }

\* C25: serving a cache hit leaves the stored entry as it is: the response
\* of an entry has, after any number of hits, the field values (fromCache,
\* fromMCP and the metadata among them) it had when it was stored
C25_EntriesImmutable ==
    [][\A ref \in CachedRefs : heap'[ref] = heap[ref]]_vars

(***************************************************************************)
(* The exact-cache key (specification SpecKeys): the service fed with      *)
(* requests that differ in systemPrompt and prompt.                        *)
(***************************************************************************)
KeyRequests ==
    { MakeRequest("b:c", "a", "none", "exact", TRUE, 0, 80),
      MakeRequest("c", "a:b", "none", "exact", TRUE, 0, 80),
      MakeRequest("c", "a", "none", "exact", TRUE, 0, 80) }

NextKeys ==
    \/ \E r \in KeyRequests : nextId <= MaxCacheReq /\ Enqueue(r, "normal")
    \/ \E tm \in timers : TimeoutFire(tm)
    \/ ExecuteLookup
    \/ \E reply \in CacheReplies : ProviderReturn(reply)
    \/ \E f \in CacheFailures : ProviderFail(f)
    \/ BackoffDone
    \/ Tick

SpecKeys == Init /\ [][NextKeys]_vars

\* the four fields the key is made of
KeyFields(request) ==
    <<request.model, request.temperature, request.systemPrompt, request.prompt>>

\* the requests answered so far
Answered ==
    { settles[id][1].request :
        id \in { i \in ReqIds : settles[i] # <<>> /\ settles[i][1].kind = "resolve" } }

\* C26: generateExactCacheKey is injective on (model, temperature,
\* systemPrompt, prompt): requests that differ in one of the four fields
\* have different keys, and no request is served from the exact cache a
\* response stored for a request that differs from it in one of them
C26_KeyInjective ==
    /\ \A r1, r2 \in Answered :
          generateExactCacheKey(r1) = generateExactCacheKey(r2)
             => KeyFields(r1) = KeyFields(r2)
    /\ \A a, b \in ReqIds :
          (/\ settles[a] # <<>> /\ settles[b] # <<>>
           /\ FromProvider(settles[a][1])
           /\ settles[b][1].cacheHit
           /\ settles[b][1].response = settles[a][1].response)
          => KeyFields(settles[a][1].request) = KeyFields(settles[b][1].request)

(***************************************************************************)
(* The exact cache under pressure (specification SpecLru): set, get, has,  *)
(* clearExpired and setMaxSize called directly while the clock runs, with  *)
(* more keys than the cache may hold.                                      *)
(***************************************************************************)
LruKeys == {"k1", "k2", "k3"}

\* the arguments of setMaxSize
MaxSizes == {1, 2}

KeysOf(c) == { c[i].key : i \in 1..Len(c) }

\* the order of use after key was used
Touch(order, key) == SelectSeq(order, LAMBDA k : k # key) \o <<key>>

\* the order of use of the keys that cache c still holds
Restrict(order, c) == SelectSeq(order, LAMBDA k : k \in KeysOf(c))

\* aiCache.set(key, data)
LruSet(key) ==
    /\ Len(storeLog) < MaxLruOps
    /\ exactCache' = AICacheSet(exactCache, key, Len(storeLog) + 1, 0, now,
                                maxSize, cacheDefaultTtl)
    /\ useOrder' = Touch(Restrict(useOrder, exactCache'), key)
    /\ storeLog' = Append(storeLog,
                          [query |-> Null, t |-> now, ttl |-> cacheDefaultTtl])
    /\ UNCHANGED <<now, semanticCache, queueVars, lastGet, lastFind, maxSize,
                   trimming, cfgVars>>

\* aiCache.get(key)
LruGet(key) ==
    /\ LET g == AICacheGet(exactCache, key, now)
       IN /\ exactCache' = g.cache
          /\ lastGet' = [value |-> g.value]
          /\ useOrder' = IF g.value # NoRef THEN Touch(useOrder, key)
                         ELSE Restrict(useOrder, g.cache)
    /\ UNCHANGED <<now, semanticCache, queueVars, storeLog, lastFind, maxSize,
                   trimming, cfgVars>>

\* aiCache.has(key)
LruHas(key) ==
    /\ exactCache' = AICacheHas(exactCache, key, now).cache
    /\ useOrder' = Restrict(useOrder, exactCache')
    /\ UNCHANGED <<now, semanticCache, queueVars, storeLog, lastGet, lastFind,
                   maxSize, trimming, cfgVars>>

\* aiCache.clearExpired()
LruClearExpired ==
    /\ exactCache' = AICacheClearExpired(exactCache, now)
    /\ useOrder' = Restrict(useOrder, exactCache')
    /\ UNCHANGED <<now, semanticCache, queueVars, storeLog, lastGet, lastFind,
                   maxSize, trimming, cfgVars>>

\* aiCache.setMaxSize(size).  When the items left are all as young as the
\* clock, the loop spins until the clock moves on and then goes on removing;
\* when it removes nothing then either, no later reading of the clock lets
\* it remove anything and the call does not return
LruSetMaxSize(size) ==
    /\ maxSize' = size
    /\ LET c1 == TrimToSize(exactCache, size, now) IN
       IF Len(c1) <= size
       THEN /\ exactCache' = c1
            /\ trimming' = FALSE
            /\ UNCHANGED <<now, lastGet, lastFind>>
       ELSE /\ now < MaxTime
            /\ now' = now + 1
            /\ exactCache' = TrimToSize(c1, size, now + 1)
            /\ trimming' = (Len(exactCache') > size)
            /\ lastGet' = NoGet
            /\ lastFind' = NoFind
    /\ useOrder' = Restrict(useOrder, exactCache')
    /\ UNCHANGED <<semanticCache, queueVars, storeLog, cfgVars>>

NextLru ==
    \/ \E key \in LruKeys : LruSet(key)
    \/ \E key \in LruKeys : LruGet(key)
    \/ \E key \in LruKeys : LruHas(key)
    \/ LruClearExpired
    \/ \E size \in MaxSizes : LruSetMaxSize(size)
    \/ Tick

SpecLru == Init /\ [][NextLru]_vars

\* the keys this step removes from the exact cache
EvictedKeys == KeysOf(exactCache) \ KeysOf(exactCache')

\* C27: when set inserts into a cache that holds maxSize entries, the entry
\* evicted is the least recently used one: no entry is evicted while another
\* entry, set or read by get less recently, stays
C27_LruEviction ==
    [][(storeLog' # storeLog /\ Len(exactCache) >= maxSize)
          => \A key \in EvictedKeys : key = Head(useOrder)]_vars

\* C28: after every set the exact cache holds at most maxSize entries,
\* whatever set, get, has, clearExpired and setMaxSize calls came before and
\* whenever they were made, several sets at one reading of the clock included
C28_CapacityBound ==
    [][storeLog' # storeLog => Len(exactCache') <= maxSize]_vars

(***************************************************************************)
(* The best match of findSimilar (specification SpecMatch): the semantic   *)
(* cache used directly, with entries stored for the model of the lookups,  *)
(* for another model and for none.                                         *)
(***************************************************************************)
MatchModels == {DefaultModel, "gpt-4", Null}

NextMatch ==
    \/ \E query \in StoreQueries, m \in MatchModels, ttl \in SemanticTtls :
          SemStore(query, m, ttl)
    \/ \E query \in FindQueries, m \in FindModels, ms \in MinSimilarities :
          SemFind(query, m, ms)
    \/ Tick

SpecMatch == Init /\ [][NextMatch]_vars

\* the similarity of a query to entry i of the semantic cache
SimilarityTo(query, i) ==
    cosineSimilarity(getEmbedding(query), semanticCache[i].embedding)

\* the entries findSimilar may return for (query, {model, minSimilarity}):
\* not expired, not recorded for another model, and at or above the floor
Candidates(query, optModel, minSimilarity) ==
    { i \in 1..Len(semanticCache) :
        /\ semanticCache[i].expiresAt >= now
        /\ semanticCache[i].model \in {Null, optModel}
        /\ SimGE(SimilarityTo(query, i), SimPct(minSimilarity)) }

\* C29: findSimilar(query, {model, minSimilarity}) returns an entry of
\* maximal similarity among the entries that are not expired, are not
\* recorded for another model and reach minSimilarity, with that similarity,
\* and it returns none exactly when there is no such entry
C29_BestMatch ==
    \A query \in FindQueries, optModel \in FindModels, ms \in MinSimilarities :
        LET match == findSimilar(semanticCache, query, optModel, ms, now).match
            C == Candidates(query, optModel, ms)
        IN /\ match.response = NoRef <=> C = {}
           /\ C # {} =>
                 \E i \in C :
                    /\ semanticCache[i].response = match.response
                    /\ semanticCache[i].key = match.cacheKey
                    /\ SimilarityTo(query, i) = match.similarity
                    /\ \A j \in C : SimGE(match.similarity, SimilarityTo(query, j))

\* findSimilar returned the entry of similarity 1 although an entry stored
\* before it, of lower similarity, reached the floor as well
C29_Witness ==
    /\ FindReturned
    /\ SimGE(lastFind.similarity, SimOne)
    /\ \E i, j \in Candidates(lastFind.query, lastFind.model, lastFind.minSimilarity) :
          /\ i < j
          /\ semanticCache[j].response = lastFind.value
          /\ SimGT(SimilarityTo(lastFind.query, j), SimilarityTo(lastFind.query, i))

(***************************************************************************)
(* UnifiedAIService.processMCPRequest (specification SpecUnified): the     *)
(* request gets the mcpParams of getMCPParams and goes to enqueue with the *)
(* priority getPriorityFromMetadata derives from its metadata.  A          *)
(* metadata.type is kept as the sequence of the words it is made of, and   *)
(* String.includes as the search of a word in it.                          *)
(***************************************************************************)
MetadataTypes ==
    { <<>>, <<"interactive">>, <<"user", "message">>, <<"critical", "background">>,
      <<"background">>, <<"batch", "analysis">>, <<"export">> }

\* metadata.priority, Null when absent
MetadataPriorities == {Null, "high", "low", "normal"}

Metadatas == [type : MetadataTypes, priority : MetadataPriorities]

\* `requestType.includes(word)`
Includes(requestType, word) == \E i \in 1..Len(requestType) : requestType[i] = word

\* a getPriorityFromMetadata that looks at the type only
getPriorityFromType(metadata) ==
    LET requestType == metadata.type IN
    IF \/ Includes(requestType, "message")
       \/ Includes(requestType, "critical")
       \/ Includes(requestType, "interactive")
    THEN "high"
    ELSE IF \/ Includes(requestType, "background")
            \/ Includes(requestType, "batch")
            \/ Includes(requestType, "analysis")
    THEN "low"
    ELSE "normal"

\* MCPConfigManager.getPriorityFromMetadata
getPriorityFromMetadata(metadata) ==
    LET requestType == metadata.type IN
    IF \/ Includes(requestType, "message")
       \/ Includes(requestType, "critical")
       \/ Includes(requestType, "interactive")
       \/ metadata.priority = "high"
    THEN "high"
    ELSE IF \/ Includes(requestType, "background")
            \/ Includes(requestType, "batch")
            \/ Includes(requestType, "analysis")
            \/ metadata.priority = "low"
    THEN "low"
    ELSE "normal"

\* the request processMCPRequest hands to enqueue: the caller's request (no
\* parser, no mcpParams of its own) with the mcpParams of getMCPParams
UnifiedRequest(metadata) ==
    LET params == getMCPParams(strategyConfigs, currentStrategy,
                               multiProviderEnabled, preferredProvider)
    IN MakeRequest("make a cube", "sys", "none", params.cacheStrategy,
                   params.storeResult, params.cacheTTL, params.minSimilarity)
          @@ [metadata |-> metadata]

\* processMCPRequest up to the call of enqueue
ProcessMCPRequest(metadata) ==
    /\ nextId <= MaxUnifiedReq
    /\ Enqueue(UnifiedRequest(metadata), getPriorityFromMetadata(metadata))

NextUnified ==
    \/ \E metadata \in Metadatas : ProcessMCPRequest(metadata)
    \/ \E tm \in timers : TimeoutFire(tm)
    \/ ExecuteLookup
    \/ \E reply \in CacheReplies : ProviderReturn(reply)
    \/ \E f \in CacheFailures : ProviderFail(f)
    \/ BackoffDone
    \/ Tick

SpecUnified == Init /\ [][NextUnified]_vars

\* the entries enqueue has made that are still queued or being executed
LiveEntries ==
    { requestQueue[i] : i \in 1..Len(requestQueue) }
        \cup (IF cur.id # 0 THEN {cur} ELSE {})

HighWords == {"interactive", "message", "critical"}

LowWords == {"background", "batch", "analysis"}

HasWord(metadata, words) == \E w \in words : Includes(metadata.type, w)

\* C30 as stated: the priority is high when the type contains a high word,
\* low when it contains a low word and no high word, and otherwise normal,
\* except that a metadata.priority of 'high' or 'low' on a type with neither
\* kind of word gives that priority; the request is enqueued with it
C30_PriorityByTypeFirst ==
    \A e \in LiveEntries :
        LET metadata == e.request.metadata IN
        e.priority = priorityLevels[
            IF HasWord(metadata, HighWords) THEN "high"
            ELSE IF HasWord(metadata, LowWords) THEN "low"
            ELSE IF metadata.priority \in {"high", "low"} THEN metadata.priority
            ELSE "normal"]

\* C30 amended: the priority is high when the type contains a high word or
\* metadata.priority is 'high', also on a type with a low word; failing
\* that, low when the type contains a low word or metadata.priority is
\* 'low'; and otherwise normal; the request is enqueued with it
C30_PriorityInference ==
    \A e \in LiveEntries :
        LET metadata == e.request.metadata IN
        /\ HasWord(metadata, HighWords) => e.priority = priorityLevels.high
        /\ metadata.priority = "high" => e.priority = priorityLevels.high
        /\ (~HasWord(metadata, HighWords) /\ metadata.priority # "high"
              /\ (HasWord(metadata, LowWords) \/ metadata.priority = "low"))
              => e.priority = priorityLevels.low
        /\ (~HasWord(metadata, HighWords \cup LowWords)
              /\ metadata.priority \notin {"high", "low"})
              => e.priority = priorityLevels.normal

\* a request of type 'background' with metadata.priority 'high' is being
\* executed with the weight of high
C30_Witness ==
    /\ cur.id # 0
    /\ cur.request.metadata = [type |-> <<"background">>, priority |-> "high"]
    /\ cur.priority = priorityLevels.high
    /\ pc = "calling"

(***************************************************************************)
(* Claims about the result of a selection (specification SpecRouter).      *)
(***************************************************************************)
\* the capability gate of one model: every required capability, mapped to its
\* field of the table, scores at least 3 / 6 / 8 (scores are kept in halves)
PassesGate(metadata, requiredCapabilities, complexityLevel) ==
    \A cap \in requiredCapabilities :
       LET field == mapCapabilityToMetadataField(cap)
           threshold == CASE complexityLevel = "low" -> 3
                          [] complexityLevel = "medium" -> 6
                          [] complexityLevel = "high" -> 8
       IN /\ field \in DOMAIN metadata.capabilities
          /\ metadata.capabilities[field] >= 2 * threshold

\* the models of the table that pass the preferred-provider filter of
\* selectModel and the capability gate
EligibleModels(options, complexityLevel) ==
    { i \in 1..Len(modelsMetadata) :
         /\ options.preferredProvider # Null
               => modelsMetadata[i].provider = options.preferredProvider
         /\ PassesGate(modelsMetadata[i], options.requiredCapabilities,
                       complexityLevel) }

\* the total score selectModel gives a model
TotalScore(i, options, complexityLevel) ==
    ModelScore(modelsMetadata[i], options, complexityLevel).totalScore

\* C31: selectModel returns a model that passes the preferred-provider filter
\* and the capability gate (every required capability at least 3 / 6 / 8 for
\* low / medium / high) and whose total score is maximal among all such
\* models; it returns the default model only when no model passes both.
C31_SelectsBestEligible ==
    \A cx \in LevelNames :
       routed.models[cx] # Null =>
          LET eligible == EligibleModels(routed.options, cx)
          IN IF eligible = {}
             THEN routed.models[cx] = DefaultBestModel
             ELSE \E i \in eligible :
                     /\ modelsMetadata[i].name = routed.models[cx]
                     /\ \A j \in eligible :
                           TotalScore(j, routed.options, cx)
                              <= TotalScore(i, routed.options, cx)

\* selectModel was called with a preferred provider and a required
\* capability, several models passed both, and the one returned is neither
\* the first of them in the table nor the default model
C31_Witness ==
    \E cx \in LevelNames :
       /\ routed.via = "selectModel"
       /\ routed.models[cx] # Null
       /\ routed.options.preferredProvider # Null
       /\ routed.options.requiredCapabilities # {}
       /\ LET eligible == EligibleModels(routed.options, cx)
          IN /\ Cardinality(eligible) >= 2
             /\ routed.models[cx] # DefaultBestModel
             /\ \E i \in eligible :
                   /\ modelsMetadata[i].name = routed.models[cx]
                   /\ \E j \in eligible : j < i

(***************************************************************************)
(* Claims about the end of the retries (specification Spec).               *)
(***************************************************************************)
\* C32: when every one of the 1 + maxRetries provider attempts of a request
\* has failed, executeRequest has returned (not thrown) a response with
\* success = false, an error, rawResponse = null, cacheHit = false and zero
\* savings, and the promise of the request is resolved with it, once.
C32_RetryExhaustion ==
    \A id \in ReqIds :
       failures[id] = 1 + maxRetries =>
          /\ Len(settles[id]) = 1
          /\ LET o == settles[id][1]
             IN /\ o.kind = "resolve"
                /\ ~o.delivered.success
                /\ o.delivered.error \notin {Null, ""}
                /\ o.delivered.rawResponse = Null
                /\ ~o.cacheHit
                /\ o.savedTokens = 0
                /\ heap[o.response] = o.delivered

\* a request whose attempts all failed, and a request after it that is
\* being served
C32_Witness ==
    \E id \in ReqIds :
       /\ failures[id] = 1 + maxRetries
       /\ calls[id] = 1 + maxRetries
       /\ settles[id] # <<>>
       /\ cur.id # id /\ pc = "calling"

(***************************************************************************)
(* The routing step of enqueue: requests with and without a model are      *)
(* enqueued while setSmartRoutingEnabled switches the option.              *)
(***************************************************************************)
\* an AIRequest with the fields selectOptimalModel reads
RoutingRequest(model, type, complexity) ==
    [MakeRequest("make a cube", "sys", "none", "exact", FALSE, 1, 80)
        EXCEPT !.model = model,
               !.mcpParams = @ @@ [priority |-> Null, preferredProvider |-> Null]]
       @@ [metadata |-> [type |-> type, complexity |-> complexity,
                         requires |-> {}, promptTokens |-> 0]]

RoutingRequests ==
    { RoutingRequest(model, type, complexity) :
         model \in {Null, DefaultModel, "gpt-4"}, type \in {"cad"},
         complexity \in {"complex"} }

\* MCPService.setSmartRoutingEnabled
SetSmartRoutingEnabled(enabled) ==
    /\ smartRoutingEnabled' = enabled
    /\ UNCHANGED <<now, requestQueue, timers, processingQueue, nextId, pc, cur,
                   retryCount, wakeAt, calls, settles, heap, exactCache,
                   semanticCache, semanticCacheEnabled, givenModel, dispatched,
                   lastPop, lastFailure, failures, running>>
    /\ UNCHANGED <<probeVars, cfgVars>>

\* MCPService.getProviderForModel, with SmartRouter.getProviderForModel
getProviderForModel(model) ==
    IF model = Null \/ model \notin ModelNames THEN "CLAUDE"
    ELSE getModelMetadata(model).provider

RoutedEnqueue(request) ==
    /\ nextId <= MaxRoutedReq
    /\ Enqueue(request, "normal")

\* the completion delivered where the routing step is studied
RoutingReplies == { reply \in Replies : reply.text = "Another response" }

NextRouting ==
    \/ \E request \in RoutingRequests : RoutedEnqueue(request)
    \/ \E enabled \in BOOLEAN : SetSmartRoutingEnabled(enabled)
    \/ \E tm \in timers : TimeoutFire(tm)
    \/ ExecuteLookup
    \/ \E reply \in RoutingReplies : ProviderReturn(reply)
    \/ Tick

SpecRouting == Init /\ [][NextRouting]_vars

\* the models request id carries wherever the service holds it: in the
\* queue, in executeRequest, and in the response delivered for it
ModelsHeld(id) ==
    { requestQueue[i].request.model :
         i \in { k \in 1..Len(requestQueue) : requestQueue[k].id = id } }
      \cup (IF cur.id = id THEN {cur.request.model} ELSE {})
      \cup { settles[id][k].request.model :
                k \in { j \in 1..Len(settles[id]) : settles[id][j].kind = "resolve" } }

\* C33: enqueue assigns request.model exactly when smart routing is enabled
\* and the request has no model; a model supplied by the caller is never
\* changed, and with smart routing disabled an unspecified model stays
\* unspecified (the provider then defaults to Claude).
C33_RoutingOnlyWhenNeeded ==
    /\ [][\A id \in ReqIds :
             (nextId = id /\ nextId' = id + 1) =>
                /\ ModelsHeld(id)' # {}
                /\ \A m \in ModelsHeld(id)' :
                      /\ (m # givenModel'[id])
                            <=> (smartRoutingEnabled /\ givenModel'[id] = Null)
                      /\ m # givenModel'[id] => m \in ModelNames]_vars
    /\ [][\A id \in ReqIds :
             id < nextId => ModelsHeld(id)' \subseteq ModelsHeld(id)]_vars
    /\ [](\A id \in ReqIds :
             (id < nextId /\ givenModel[id] # Null)
                => ModelsHeld(id) \subseteq {givenModel[id]})
    /\ []((pc = "calling" /\ cur.request.model = Null)
             => getProviderForModel(cur.request.model) = "CLAUDE")

\* smart routing was switched off: one request without a model is at the
\* provider without one; the request before it came without a model while
\* routing was on and was answered under the model selected for it
C33_Witness ==
    /\ ~smartRoutingEnabled
    /\ pc = "calling" /\ cur.id = 2
    /\ givenModel[2] = Null /\ cur.request.model = Null
    /\ givenModel[1] = Null
    /\ settles[1] # <<>> /\ settles[1][1].kind = "resolve"
    /\ settles[1][1].request.model \in ModelNames

(***************************************************************************)
(* Claims about the drain loop as the only executor (specification Spec).  *)
(***************************************************************************)
\* C34: in an MCPService instance at most one processQueue loop is active and
\* at most one request is inside executeRequest (its retry backoff
\* included) at any time, for every interleaving of enqueue calls, timeout
\* callbacks and provider completions.
C34_SerialDispatch ==
    /\ running.loops <= 1
    /\ running.requests <= 1
    /\ processingQueue <=> running.loops = 1
    /\ (pc \in {"lookup", "calling", "backoff"}) <=> running.requests = 1
    /\ \A id \in ReqIds :
          Cardinality({ j \in 1..Len(dispatched) : dispatched[j] = id }) <= 1

\* a request is in its retry backoff while another one, enqueued during the
\* provider call of the first, waits in the queue, and a third one was
\* rejected by its timeout
C34_Witness ==
    /\ pc = "backoff"
    /\ running = [loops |-> 1, requests |-> 1]
    /\ Len(requestQueue) >= 1
    /\ \E id \in ReqIds : settles[id] # <<>> /\ settles[id][1].kind = "reject"
    /\ \E i \in 1..Len(requestQueue) : requestQueue[i].timestamp > cur.timestamp

(***************************************************************************)
(* setMaxSize on caches of any content (specification SpecTrim): set and   *)
(* setMaxSize called directly while the clock runs; the empty string is a  *)
(* key like any other.                                                     *)
(***************************************************************************)
TrimKeys == {"", "k1", "k2"}

\* the arguments of setMaxSize
TrimSizes == {0, 1, 2}

\* a call is made only after the one before it has returned
NextTrim ==
    \/ \E key \in TrimKeys : ~trimming /\ LruSet(key)
    \/ \E size \in TrimSizes : ~trimming /\ LruSetMaxSize(size)
    \/ Tick

SpecTrim == Init /\ [][NextTrim]_vars

\* this step is a call of setMaxSize: it stores nothing, and it is not the
\* clock alone that moves
SetMaxSizeStep ==
    /\ storeLog' = storeLog
    /\ now' = now \/ exactCache' # exactCache \/ trimming' # trimming

\* C35: AICache.setMaxSize(n) always terminates and leaves at most n entries
\* in the cache, for every cache content and every n >= 0, including when the
\* entries were inserted within the same clock millisecond as the call.
C35_SetMaxSizeTrims ==
    [][SetMaxSizeStep => (~trimming' /\ Len(exactCache') <= maxSize')]_vars

(***************************************************************************)
(* UnifiedAIService.processRequest and its fallback (specification         *)
(* SpecFallback).  A call goes to processMCPRequest when                   *)
(* `useMCP ?? this.mcpEnabled` holds and to the standard path (cache of    *)
(* the service, then the proxy) otherwise.  The continuation of an awaited *)
(* enqueue runs as soon as the promise is settled, before any other        *)
(* callback.                                                               *)
(***************************************************************************)
\* useMCP of the caller's request: Null when absent, "true" for true
UseMCPValues == {Null, "true"}

FallbackMetadata == [type |-> <<"background">>, priority |-> Null]

\* `const shouldUseMCP = useMCP ?? this.mcpEnabled`
shouldUseMCP(useMCP, enabled) == IF useMCP # Null THEN useMCP = "true" ELSE enabled

\* what the other variables of a step of UnifiedAIService do
UnifiedFrame ==
    UNCHANGED <<probeVars, strategyConfigs, currentStrategy, multiProviderEnabled,
                preferredProvider, updates, lastParams, routerVars, mcpEnabled>>

\* processRequest(request) from its entry to its first suspension: inside
\* enqueue when it takes the MCP path, at the fetch of the standard path
\* otherwise.  processMCPRequest receives the request without useMCP.
EnterProcessRequest(u, useMCP) ==
    IF shouldUseMCP(useMCP, mcpEnabled)
    THEN /\ EnqueueCall(UnifiedRequest(FallbackMetadata),
                        getPriorityFromMetadata(FallbackMetadata))
         /\ unified' = [unified EXCEPT
                           ![u] = [status |-> "mcp", useMCP |-> useMCP,
                                   mcpId |-> nextId,
                                   enqueued |-> unified[u].enqueued + 1]]
    ELSE /\ unified' = [unified EXCEPT
                           ![u] = [@ EXCEPT !.status = "standard",
                                            !.useMCP = useMCP]]
         /\ UNCHANGED svcVars

\* a caller calls unifiedAIService.processRequest
ProcessRequest(u, useMCP) ==
    /\ unified[u].status = "none"
    /\ \A v \in UnifiedCalls : v < u => unified[v].status # "none"
    /\ EnterProcessRequest(u, useMCP)
    /\ UnifiedFrame

\* the promise of enqueue awaited by call u is settled
Awaited(u) == unified[u].status = "mcp" /\ settles[unified[u].mcpId] # <<>>

\* processMCPRequest after `await this.mcpService.enqueue(...)`: it returns
\* the response, or its catch calls processRequest(standardRequest), the
\* request without mcpParams and useMCP
AfterEnqueue(u) ==
    /\ Awaited(u)
    /\ IF settles[unified[u].mcpId][1].kind = "resolve"
       THEN /\ unified' = [unified EXCEPT ![u].status = "done"]
            /\ UNCHANGED svcVars
       ELSE EnterProcessRequest(u, Null)
    /\ UnifiedFrame

\* the standard path returns: the response of the proxy, or the error
\* response of its catch
StandardReturn(u) ==
    /\ unified[u].status = "standard"
    /\ unified' = [unified EXCEPT ![u].status = "done"]
    /\ UNCHANGED svcVars
    /\ UnifiedFrame

\* unifiedAIService.setConfig({ mcpEnabled })
SetMcpEnabled(enabled) ==
    /\ mcpEnabled' = enabled
    /\ UNCHANGED <<svcVars, probeVars, strategyConfigs, currentStrategy,
                   multiProviderEnabled, preferredProvider, updates, lastParams,
                   routerVars, unified>>

\* a continuation is due: it runs before anything else
ContinuationDue == \E u \in UnifiedCalls : Awaited(u)

NextFallback ==
    \/ \E u \in UnifiedCalls : AfterEnqueue(u)
    \/ \E u \in UnifiedCalls, useMCP \in UseMCPValues :
          ~ContinuationDue /\ ProcessRequest(u, useMCP)
    \/ \E u \in UnifiedCalls : ~ContinuationDue /\ StandardReturn(u)
    \/ \E enabled \in BOOLEAN : ~ContinuationDue /\ SetMcpEnabled(enabled)
    \/ \E tm \in timers : ~ContinuationDue /\ TimeoutFire(tm)
    \/ ~ContinuationDue /\ ExecuteLookup
    \/ \E reply \in CacheReplies : ~ContinuationDue /\ ProviderReturn(reply)
    \/ \E f \in CacheFailures : ~ContinuationDue /\ ProviderFail(f)
    \/ ~ContinuationDue /\ BackoffDone
    \/ ~ContinuationDue /\ Tick

SpecFallback == Init /\ [][NextFallback]_vars

\* C36: when MCPService.enqueue rejects (e.g. request timeout),
\* UnifiedAIService completes the request through the standard non-MCP path;
\* the fallback never enqueues the request into MCP again, so processRequest
\* ends with a response after at most one MCP attempt.
C36_FallbackLeavesMCP ==
    \A u \in UnifiedCalls :
       /\ unified[u].enqueued <= 1
       /\ \A id \in ReqIds :
             (id < unified[u].mcpId /\ unified[u].enqueued > 1)
                => unified[u].status \in {"standard", "done"}

(***************************************************************************)
(* Claims about what the caches hold and serve (specification Spec).       *)
(***************************************************************************)
\* C37: a response served from the cache always has success = true: a
\* response with success = false (final provider failure or parser failure)
\* is never stored in the exact or the semantic cache and never returned as
\* a cache hit to a later request
C37_OnlySuccessCached ==
    /\ \A ref \in CachedRefs : heap[ref].success
    /\ \A id \in ReqIds : \A k \in 1..Len(settles[id]) :
          (settles[id][k].kind = "resolve" /\ settles[id][k].cacheHit)
             => settles[id][k].delivered.success

(***************************************************************************)
(* Claims about set on a key the exact cache already holds (specification  *)
(* SpecLru).                                                               *)
(***************************************************************************)

\* the key of the set this step makes
SetKey == useOrder'[Len(useOrder')]

\* the entries of cache c that get would still return at time t
Retrievable(c, t) == { c[i] : i \in { j \in 1..Len(c) : ~IsExpired(c[j], t) } }

\* C38: AICache.set on a key that is already present in a full cache
\* (size = maxSize) replaces only that key's entry: every other non-expired
\* entry is still retrievable afterwards
C38_SetReplacesInPlace ==
    [][(/\ storeLog' # storeLog
        /\ Len(exactCache) = maxSize
        /\ SetKey \in KeysOf(exactCache))
          => \A item \in Retrievable(exactCache, now) :
                item.key # SetKey => item \in Retrievable(exactCache', now)]_vars

(***************************************************************************)
(* The semantic cache switched off and on (specification SpecSwitch):      *)
(* setSemanticCacheEnabled called between the steps of the service, with   *)
(* requests of the three strategies for one prompt.                        *)
(***************************************************************************)
SwitchRequests ==
    { MakeRequest("make a cube", "sys", "none", strategy, TRUE, 0, 80) :
         strategy \in Strategies }

\* MCPService.setSemanticCacheEnabled
SetSemanticCacheEnabled(enabled) ==
    /\ semanticCacheEnabled' = enabled
    /\ UNCHANGED <<now, requestQueue, timers, processingQueue, nextId, pc, cur,
                   retryCount, wakeAt, calls, settles, heap, exactCache,
                   semanticCache, smartRoutingEnabled, givenModel, dispatched,
                   lastPop, lastFailure, failures, running>>
    /\ UNCHANGED <<probeVars, cfgVars>>

NextSwitch ==
    \/ \E r \in SwitchRequests : nextId <= MaxSwitchReq /\ Enqueue(r, "normal")
    \/ \E enabled \in BOOLEAN : SetSemanticCacheEnabled(enabled)
    \/ \E tm \in timers : TimeoutFire(tm)
    \/ ExecuteLookup
    \/ \E reply \in CacheReplies : ProviderReturn(reply)
    \/ Tick

SpecSwitch == Init /\ [][NextSwitch]_vars

\* this step is one of executeRequest, made while the semantic cache is off
StepWhileOff == ~semanticCacheEnabled /\ ~semanticCacheEnabled' /\ pc # "idle"

\* the entry of the exact cache c for request r that get returns at time t
ExactEntry(c, r, t) == AICacheGet(c, generateExactCacheKey(r), t).value

\* this step is the lookup of executeRequest / the return of its provider call
IsLookupStep == pc = "lookup" /\ pc' # pc

IsReturnStep == pc = "calling" /\ Len(heap') > Len(heap) /\ failures' = failures

\* C39: while semanticCacheEnabled is false, no request reads or writes the
\* semantic cache whatever its cacheStrategy, and the exact-cache lookups
\* and stores for the strategies exact and hybrid behave as when it is
\* enabled: a lookup is a hit exactly when the exact cache holds a live
\* entry under the key of the request, and it delivers that entry; a
\* response stored is then the entry under that key
C39_SemanticSwitchedOff ==
    [][StepWhileOff =>
         /\ semanticCache' = semanticCache
         /\ IsLookupStep =>
              LET r == cur.request
                  hit == IF r.mcpParams.cacheStrategy \in {"exact", "hybrid"}
                         THEN ExactEntry(exactCache, r, now) ELSE NoRef
              IN IF hit # NoRef
                 THEN /\ Len(settles'[cur.id]) = 1
                      /\ settles'[cur.id][1].cacheHit
                      /\ settles'[cur.id][1].response = hit
                 ELSE settles' = settles /\ pc' = "calling"
         /\ (/\ IsReturnStep
             /\ cur.request.mcpParams.cacheStrategy \in {"exact", "hybrid"})
              => ExactEntry(exactCache', cur.request, now) = Len(heap')]_vars

\* with the semantic cache off, a request of strategy semantic or hybrid is
\* at its provider although the semantic cache holds a live match for it
C39_Witness ==
    /\ ~semanticCacheEnabled
    /\ pc = "calling"
    /\ cur.request.mcpParams.cacheStrategy \in {"semantic", "hybrid"}
    /\ findSimilar(semanticCache, cur.request.prompt, cur.request.model,
                   MinSimilarityOf(cur.request.mcpParams), now).match.response # NoRef

(***************************************************************************)
(* Requests under different system prompts (specification SpecPrompts):    *)
(* one prompt sent under two system prompts, with the strategies that      *)
(* consult the exact and the semantic cache.                               *)
(***************************************************************************)
SystemPrompts == {"sys", "You are a CAD expert"}

PromptRequests ==
    { MakeRequest("make a cube", systemPrompt, "none", strategy, TRUE, 0, 80) :
         systemPrompt \in SystemPrompts, strategy \in {"exact", "semantic"} }

NextPrompts ==
    \/ \E r \in PromptRequests : nextId <= MaxCacheReq /\ Enqueue(r, "normal")
    \/ \E tm \in timers : TimeoutFire(tm)
    \/ ExecuteLookup
    \/ \E reply \in CacheReplies : ProviderReturn(reply)
    \/ Tick

SpecPrompts == Init /\ [][NextPrompts]_vars

\* C40: a response served by a cache hit (exact or semantic) was stored for
\* a request with the same systemPrompt as the request being served; a
\* response produced under one system prompt is never returned for a
\* request that carries a different system prompt
C40_SameSystemPrompt ==
    \A a, b \in ReqIds :
        (/\ settles[a] # <<>> /\ settles[b] # <<>>
         /\ FromProvider(settles[a][1])
         /\ settles[b][1].kind = "resolve"
         /\ settles[b][1].cacheHit
         /\ settles[b][1].response = settles[a][1].response)
        => settles[b][1].request.systemPrompt = settles[a][1].request.systemPrompt

====
